---- MODULE Spec2Model ----
(***************************************************************************)
(* Model of the data-processing core of the Bot Monitoring Dashboard:      *)
(*   src/data_processing/processors.py  (extract_project_name,             *)
(*       process_data_for_dashboard, create_hourly_matrix)                 *)
(*   src/data_processing/validators.py  (validate_processed_data,          *)
(*       validate_matrix_data)                                             *)
(*                                                                         *)
(* Representation of Python / pandas values:                               *)
(*   - a str is a sequence of one-character strings; the empty str is <<>>; *)
(*   - None / NaN in a string column is NULL, the one-element sequence     *)
(*     <<"NULL">> (no str is equal to it: its element is not a character); *)
(*   - a numeric cell (hour) is <<n>>, and NaN is <<>>;                     *)
(*   - a dict is a function, {} is the function with empty domain (<<>>);   *)
(*   - a list is a sequence;                                               *)
(*   - a DataFrame is a record [kind, columns, rows]: the set of column    *)
(*     names and the sequence of row records; a row carries every field    *)
(*     of the model and the fields of absent columns are not read.         *)
(* A computation that can raise returns a record with kind = "raise".      *)
(***************************************************************************)
EXTENDS Integers, Sequences, FiniteSets, TLC

VARIABLES
    pc,                 \* position of the caller
    raw_df,             \* the batch handed to process_data_for_dashboard
    day_filter,         \* process_data_for_dashboard argument
    df,                 \* the batch handed to create_hourly_matrix
    selected_project,   \* create_hourly_matrix argument
    selected_status,    \* create_hourly_matrix argument
    max_rows,           \* create_hourly_matrix argument
    matrix,             \* outcome of create_hourly_matrix
    id_order,           \* iteration order of COMMON_IDENTIFIERS in this process
    flow_name,          \* extract_project_name argument
    extracted,          \* outcome of extract_project_name
    cache,              \* the lru_cache of extract_project_name
    matrix_args,        \* the arguments of a validate_matrix_data call
    validated,          \* outcome of a validator call
    threads,            \* the threads calling extract_project_name at once
    stages              \* the calls the main flow has made, in order

vars == <<pc, raw_df, day_filter, df, selected_project, selected_status, max_rows,
          matrix, id_order, flow_name, extracted, cache, matrix_args, validated,
          threads, stages>>

validatorVars == <<matrix_args, validated>>

----------------------------------------------------------------------------
(* Strings *)

\* The characters of the model in ascending code point order.
Chars ==
    << " ", "-", "0", "1", "2",
       "A", "B", "C", "D", "E", "F", "G", "H", "I", "J", "K", "L", "M",
       "N", "O", "P", "Q", "R", "S", "T", "U", "V", "W", "X", "Y", "Z",
       "_",
       "a", "b", "c", "d", "e", "f", "g", "h", "i", "j", "k", "l", "m",
       "n", "o", "p", "q", "r", "s", "t", "u", "v", "w", "x", "y", "z",
       "|" >>

CharSet == {Chars[i] : i \in 1..Len(Chars)}

\* ord(c), up to an order-preserving renumbering.
Ord == [c \in CharSet |-> CHOOSE i \in 1..Len(Chars) : Chars[i] = c]

NULL == <<"NULL">>

IsNull(x) == x = NULL

\* isinstance(x, str)
IsStr(x) == \A i \in 1..Len(x) : x[i] \in CharSet

\* Python's s < t on str: lexicographic on code points.
RECURSIVE StrLess(_, _)
StrLess(s, t) ==
    IF t = <<>> THEN FALSE
    ELSE IF s = <<>> THEN TRUE
    ELSE IF Head(s) = Head(t) THEN StrLess(Tail(s), Tail(t))
    ELSE Ord[Head(s)] < Ord[Head(t)]

Range(s) == {s[i] : i \in 1..Len(s)}

\* The status labels of the program.
S_Failed     == <<"F","a","i","l","e","d">>
S_Error      == <<"E","r","r","o","r">>
S_TimedOut   == <<"T","i","m","e","d","O","u","t">>
S_Running    == <<"R","u","n","n","i","n","g">>
S_InProgress == <<"I","n","P","r","o","g","r","e","s","s">>
S_Started    == <<"S","t","a","r","t","e","d">>
S_Succeeded  == <<"S","u","c","c","e","e","d","e","d">>
S_Completed  == <<"C","o","m","p","l","e","t","e","d">>
S_Done       == <<"D","o","n","e">>
S_Skipped    == <<"S","k","i","p","p","e","d">>
S_Canceled   == <<"C","a","n","c","e","l","e","d">>
S_Suspended  == <<"S","u","s","p","e","n","d","e","d">>
S_Paused     == <<"P","a","u","s","e","d">>
S_NoRun      == <<"N","o"," ","R","u","n">>

\* STATUS_PRIORITY.get(x, 0)
STATUS_PRIORITY(x) ==
    CASE x \in {S_Failed, S_Error, S_TimedOut}       -> 100
      [] x \in {S_Running, S_InProgress, S_Started}  -> 80
      [] x \in {S_Succeeded, S_Completed, S_Done}    -> 60
      [] x = S_Skipped                               -> 40
      [] x = S_Canceled                              -> 30
      [] x \in {S_Suspended, S_Paused}               -> 20
      [] x = S_NoRun                                 -> 0
      [] OTHER                                       -> 0

\* The sentinels that disable a filter.
AllProjects == <<"A","l","l"," ","P","r","o","j","e","c","t","s">>
AllStatuses == <<"A","l","l"," ","S","t","a","t","u","s","e","s">>

\* list(range(24))
Hours24 == [i \in 1..24 |-> i - 1]

----------------------------------------------------------------------------
(* validators.py: validate_matrix_data *)

\* Python objects handed to validate_matrix_data, tagged with their type.
PyDict(m)  == [t |-> "dict",  v |-> m]
PyList(s)  == [t |-> "list",  v |-> s]
PyOther    == [t |-> "other", v |-> <<>>]

EmptyDict == <<>>

\* a variant of ValidHours whose lower bound is exclusive (0 < h)
RECURSIVE ValidHours_ExclusiveBound(_)
ValidHours_ExclusiveBound(hours) ==
    IF hours = <<>> THEN <<>>
    ELSE IF 0 < Head(hours) /\ Head(hours) <= 23
         THEN <<Head(hours)>> \o ValidHours_ExclusiveBound(Tail(hours))
         ELSE ValidHours_ExclusiveBound(Tail(hours))

\* [h for h in hours if isinstance(h, int) and 0 <= h <= 23]
RECURSIVE ValidHours(_)
ValidHours(hours) ==
    IF hours = <<>> THEN <<>>
    ELSE IF 0 <= Head(hours) /\ Head(hours) <= 23
         THEN <<Head(hours)>> \o ValidHours(Tail(hours))
         ELSE ValidHours(Tail(hours))

\* a variant of RepairHours that leaves the hours outside 0..23 in the axis
RepairHours_KeepsInvalid(hours) ==
    IF hours.t # "list" \/ hours.v = <<>> THEN Hours24 ELSE hours.v

\* lines 175-183: the hour axis after repair
RepairHours(hours) ==
    LET h1 == IF hours.t # "list" \/ hours.v = <<>> THEN Hours24 ELSE hours.v
        vh == ValidHours(h1)
    IN  IF Len(vh) # Len(h1)
        THEN (IF vh # <<>> THEN vh ELSE Hours24)
        ELSE h1

\* a variant of ValidName that keeps the empty string
ValidName_AcceptsEmpty(name) == IsStr(name)

\* lines 190-192: a name that is kept
ValidName(name) == IsStr(name) /\ name # <<>>

\* a variant of ValidStatus that keeps a status that is no non-empty string
ValidStatus_KeepsInvalid(hour_status, hour) ==
    IF hour \in DOMAIN hour_status THEN hour_status[hour] ELSE S_NoRun

\* lines 201-204: the status stored for one hour
ValidStatus(hour_status, hour) ==
    LET status == IF hour \in DOMAIN hour_status THEN hour_status[hour] ELSE S_NoRun
    IN  IF ~IsStr(status) \/ status = <<>> THEN S_NoRun ELSE status

\* a variant of ValidHourStatus that stops before the last declared hour
ValidHourStatus_DropsLastHour(hour_status, hours) ==
    [h \in Range(SubSeq(hours, 1, Len(hours) - 1)) |->
        IF h \in DOMAIN hour_status THEN hour_status[h] ELSE S_NoRun]

\* lines 197-204: the rebuilt hour map of one entity
ValidHourStatus(hour_status, hours) ==
    [h \in Range(hours) |-> ValidStatus(hour_status, h)]

\* lines 189-208: the names kept, in order (a repeated name is appended again)
RECURSIVE ValidDisplayNames(_)
ValidDisplayNames(names) ==
    IF names = <<>> THEN <<>>
    ELSE IF ValidName(Head(names))
         THEN <<Head(names)>> \o ValidDisplayNames(Tail(names))
         ELSE ValidDisplayNames(Tail(names))

\* list(bot_hour_status.keys()): insertion order, here an arbitrary fixed one
RECURSIVE KeysList(_)
KeysList(S) ==
    IF S = {} THEN <<>>
    ELSE LET k == CHOOSE x \in S : \A y \in S \ {x} : StrLess(x, y) \/ ~StrLess(y, x)
         IN  <<k>> \o KeysList(S \ {k})

\* a variant of the payload that returns a new dict() in every outcome
Payload_NewDict(cells, entities, hours) ==
    [cells |-> EmptyDict, entities |-> entities, hours |-> hours]

\* the third element of the tuple returned
Payload(cells, entities, hours) ==
    [cells |-> cells, entities |-> entities, hours |-> hours]

\* validate_matrix_data(bot_hour_status, display_names, hours)
\*   -> (is_valid, message, (cells, entities, hours))
validate_matrix_data(bot_hour_status, display_names, hours) ==
    IF bot_hour_status.t # "dict"
    THEN [ok |-> FALSE, message |-> "Invalid bot_hour_status type",
          data |-> Payload(EmptyDict, <<>>, Hours24)]
    ELSE
    LET bhs    == bot_hour_status.v
        names0 == IF display_names.t # "list" THEN <<>> ELSE display_names.v
        names1 == IF names0 = <<>> /\ DOMAIN bhs # {}
                  THEN KeysList(DOMAIN bhs) ELSE names0
    IN  IF names1 = <<>>
        THEN [ok |-> FALSE, message |-> "Invalid or empty display_names",
              data |-> Payload(bhs, <<>>, Hours24)]
        ELSE
        LET hrs   == RepairHours(hours)
            valid == ValidDisplayNames(names1)
            \* lines 195-201: the entry of a kept name is no dict, and
            \* hour_status.get raises AttributeError
            nodict == \E n \in Range(valid) : n \in DOMAIN bhs /\ IsNull(bhs[n])
            cells == [n \in Range(valid) |->
                        ValidHourStatus(IF n \in DOMAIN bhs THEN bhs[n] ELSE EmptyDict,
                                        hrs)]
        IN  IF nodict
            THEN [ok |-> FALSE, message |-> "Validation error",     \* line 216
                  data |-> Payload(EmptyDict, <<>>, Hours24)]
            ELSE IF valid = <<>>
            THEN [ok |-> FALSE, message |-> "No valid display names",
                  data |-> Payload(EmptyDict, <<>>, hrs)]
            ELSE [ok |-> TRUE, message |-> "Validation successful",
                  data |-> Payload(cells, valid, hrs)]

----------------------------------------------------------------------------
(* DataFrames *)

NoneDF  == [kind |-> "none",  columns |-> {}, rows |-> <<>>]
\* an argument that is not a DataFrame (no attribute .empty)
OtherDF == [kind |-> "other", columns |-> {}, rows |-> <<>>]
Frame(columns, rows) == [kind |-> "frame", columns |-> columns, rows |-> rows]

\* df.empty: an axis of length 0
IsEmpty(d) == d.rows = <<>> \/ d.columns = {}

\* datetimestarted cells: a timestamp of day d, hour h; an unparseable value
Ts(d, h) == <<"ts", d, h>>
BadTs    == <<"bad">>
IsTs(x)  == Len(x) = 3

Sep == <<" ", "|", " ">>
S_Unknown == <<"U","n","k","n","o","w","n">>

\* owner + ' | ' + automation_project + ' | ' + flowname on object columns:
\* NaN where an operand is null
DisplayName(owner, project, flowname) ==
    IF IsNull(owner) \/ IsNull(project) \/ IsNull(flowname) THEN NULL
    ELSE owner \o Sep \o project \o Sep \o flowname

Filter(s, keep(_)) == SelectSeq(s, keep)

Map(s, f(_)) == [i \in 1..Len(s) |-> f(s[i])]

\* a variant of Unique that keeps repeated values
Unique_KeepsDuplicates(s) == s

\* Series.unique(): the distinct values in order of first occurrence
RECURSIVE Unique(_)
Unique(s) ==
    IF s = <<>> THEN <<>>
    ELSE LET rest == Unique(SubSeq(s, 1, Len(s) - 1))
         IN  IF s[Len(s)] \in Range(rest) THEN rest ELSE rest \o <<s[Len(s)]>>

----------------------------------------------------------------------------
(* validators.py: validate_processed_data *)

\* lines 106-115: a required column that is absent is synthesised
SynthRequired(d) ==
    LET c == d.columns
        fix(r) ==
          [r EXCEPT
            !.owner = IF "owner" \in c THEN @
                      ELSE IF "flowowner" \in c THEN r.flowowner ELSE S_Unknown,
            !.automation_project = IF "automation_project" \in c THEN @ ELSE S_Unknown,
            !.flowname = IF "flowname" \in c THEN @ ELSE S_Unknown,
            !.taskstatus = IF "taskstatus" \in c THEN @ ELSE S_Unknown,
            !.datetimestarted = IF "datetimestarted" \in c THEN @ ELSE BadTs]
    IN  Frame(c \cup {"owner", "automation_project", "flowname", "taskstatus",
                      "datetimestarted"},
              Map(d.rows, fix))

\* pd.to_datetime(column) with errors='raise' raises on an unparseable value
ToDatetimeRaises(rows) == \E i \in 1..Len(rows) : rows[i].datetimestarted = BadTs

\* pd.to_datetime(x).dt.hour of one cell (NaT gives NaN)
HourOf(x) == IF IsTs(x) THEN <<x[3]>> ELSE <<>>

\* validate_processed_data(df) -> (is_valid, message, validated_df)
validate_processed_data(d) ==
    IF d.kind = "none" THEN [ok |-> FALSE, df |-> NoneDF]
    ELSE IF d.kind = "other" THEN [ok |-> FALSE, df |-> NoneDF]   \* line 139
    ELSE IF IsEmpty(d) THEN [ok |-> FALSE, df |-> NoneDF]
    ELSE
    LET v1 == SynthRequired(d)
    IN  IF "hour" \notin v1.columns /\ ToDatetimeRaises(v1.rows)
        THEN [ok |-> FALSE, df |-> NoneDF]                        \* line 139
        ELSE
        LET sethour(r) == [r EXCEPT !.hour = HourOf(r.datetimestarted)]
            v2 == IF "hour" \notin v1.columns
                  THEN Frame(v1.columns \cup {"hour"}, Map(v1.rows, sethour))
                  ELSE v1
            setname(r) == [r EXCEPT !.display_name =
                              DisplayName(r.owner, r.automation_project, r.flowname)]
            v3 == IF "display_name" \notin v2.columns
                  THEN Frame(v2.columns \cup {"display_name"}, Map(v2.rows, setname))
                  ELSE v2
        IN  [ok |-> TRUE, df |-> v3]

----------------------------------------------------------------------------
(* processors.py: extract_project_name *)

UpperLetters ==
    << "A", "B", "C", "D", "E", "F", "G", "H", "I", "J", "K", "L", "M",
       "N", "O", "P", "Q", "R", "S", "T", "U", "V", "W", "X", "Y", "Z" >>
LowerLetters ==
    << "a", "b", "c", "d", "e", "f", "g", "h", "i", "j", "k", "l", "m",
       "n", "o", "p", "q", "r", "s", "t", "u", "v", "w", "x", "y", "z" >>

IsUpper(c) == c \in Range(UpperLetters)      \* [A-Z], str.isupper
IsLower(c) == c \in Range(LowerLetters)      \* [a-z]
IsAlpha(c) == IsUpper(c) \/ IsLower(c)       \* [A-Za-z]
IsSpace(c) == c = " "                        \* \s, str.isspace

LetterIndex(c, letters) == CHOOSE i \in 1..Len(letters) : letters[i] = c
ToUpper(c) == IF IsLower(c) THEN UpperLetters[LetterIndex(c, LowerLetters)] ELSE c
ToLower(c) == IF IsUpper(c) THEN LowerLetters[LetterIndex(c, UpperLetters)] ELSE c

\* str.upper
Upper(s) == [i \in 1..Len(s) |-> ToUpper(s[i])]

\* str.strip
RECURSIVE LStrip(_)
LStrip(s) == IF s # <<>> /\ IsSpace(Head(s)) THEN LStrip(Tail(s)) ELSE s
RECURSIVE RStrip(_)
RStrip(s) ==
    IF s # <<>> /\ IsSpace(s[Len(s)]) THEN RStrip(SubSeq(s, 1, Len(s) - 1)) ELSE s
Strip(s) == RStrip(LStrip(s))

\* s.startswith(p)
StartsWith(s, p) == Len(p) <= Len(s) /\ SubSeq(s, 1, Len(p)) = p

\* s.find(p) + 1: the first position where p occurs, 0 when it does not
Find(s, p) ==
    LET at == {i \in 1..(Len(s) - Len(p) + 1) : SubSeq(s, i, i + Len(p) - 1) = p}
    IN  IF at = {} THEN 0 ELSE CHOOSE i \in at : \A j \in at : i <= j

\* p in s
Contains(s, p) == Find(s, p) # 0

\* s.split(p)[0]
BeforeFirst(s, p) == IF Contains(s, p) THEN SubSeq(s, 1, Find(s, p) - 1) ELSE s

\* the longest prefix of s whose characters satisfy the test
RECURSIVE LowerPrefix(_)
LowerPrefix(s) ==
    IF s # <<>> /\ IsLower(Head(s)) THEN <<Head(s)>> \o LowerPrefix(Tail(s)) ELSE <<>>
RECURSIVE AlphaPrefix(_)
AlphaPrefix(s) ==
    IF s # <<>> /\ IsAlpha(Head(s)) THEN <<Head(s)>> \o AlphaPrefix(Tail(s)) ELSE <<>>
RECURSIVE NonSpacePrefix(_)
NonSpacePrefix(s) ==
    IF s # <<>> /\ ~IsSpace(Head(s))
    THEN <<Head(s)>> \o NonSpacePrefix(Tail(s)) ELSE <<>>

\* CAMEL_CASE_PATTERN.match(s): ^([A-Z][a-z]+), <<>> when there is no match
CamelMatch(s) ==
    IF s # <<>> /\ IsUpper(Head(s)) /\ LowerPrefix(Tail(s)) # <<>>
    THEN <<Head(s)>> \o LowerPrefix(Tail(s))
    ELSE <<>>

\* s.split()[0] of a stripped, non-empty s
FirstWord(s) == NonSpacePrefix(s)

\* SPLIT_PATTERN.split(s): the parts between the characters [_\s-]
IsSplitChar(c) == c = "_" \/ IsSpace(c) \/ c = "-"
RECURSIVE SplitParts(_, _)
SplitParts(s, cur) ==
    IF s = <<>> THEN <<cur>>
    ELSE IF IsSplitChar(Head(s)) THEN <<cur>> \o SplitParts(Tail(s), <<>>)
    ELSE SplitParts(Tail(s), cur \o <<Head(s)>>)

\* ALPHA_SEQUENCE_PATTERN.search(s): the first run of [A-Za-z]{3,}
RECURSIVE AlphaSearch(_)
AlphaSearch(s) ==
    IF s = <<>> THEN <<>>
    ELSE LET run == AlphaPrefix(s)
         IN  IF Len(run) >= 3 THEN run
             ELSE IF run = <<>> THEN AlphaSearch(Tail(s))
             ELSE AlphaSearch(SubSeq(s, Len(run) + 1, Len(s)))

\* COMMON_IDENTIFIERS, in the order written on line 50
COMMON_IDENTIFIERS ==
    << <<"A","M","Z">>, <<"A","W","S">>, <<"C","2","D">>, <<"A","Z">>,
       <<"W","F">>, <<"P","S">>, <<"V","P">>, <<"B","I">> >>

\* lines 97-99: the first part holding the identifier, NULL when none does
FirstPartWith(parts, identifier) ==
    LET at == {i \in 1..Len(parts) : Contains(Upper(parts[i]), identifier)}
    IN  IF at = {} THEN NULL ELSE parts[CHOOSE i \in at : \A j \in at : i <= j]

\* lines 93-99: pattern 5, the identifiers visited in the order ids (the
\* iteration order of the frozenset); NULL when no identifier gives a part
RECURSIVE IdentifierPart(_, _)
IdentifierPart(name, ids) ==
    IF ids = <<>> THEN NULL
    ELSE IF Contains(Upper(name), Head(ids))
            /\ FirstPartWith(SplitParts(name, <<>>), Head(ids)) # NULL
         THEN FirstPartWith(SplitParts(name, <<>>), Head(ids))
         ELSE IdentifierPart(name, Tail(ids))

\* a variant of the body that tries the underscore before the hyphen
ExtractBody_UnderscoreFirst(fname, ids) ==
    IF ~IsStr(fname) \/ Strip(fname) = <<>> THEN S_Unknown
    ELSE
    LET name == Strip(fname)
    IN  IF Contains(name, <<"_">>)
        THEN Strip(BeforeFirst(name, <<"_">>))
        ELSE IF Contains(name, <<" ", "-", " ">>)
        THEN Strip(BeforeFirst(name, <<" ", "-", " ">>))
        ELSE IF CamelMatch(name) # <<>>
        THEN CamelMatch(name)
        ELSE IF Len(FirstWord(name)) > 2 /\ IsUpper(FirstWord(name)[1])
        THEN FirstWord(name)
        ELSE IF IdentifierPart(name, ids) # NULL
        THEN IdentifierPart(name, ids)
        ELSE IF AlphaSearch(name) # <<>>
        THEN AlphaSearch(name)
        ELSE S_Unknown

\* lines 68-106: the body of extract_project_name
ExtractBody(fname, ids) ==
    IF ~IsStr(fname) \/ Strip(fname) = <<>> THEN S_Unknown
    ELSE
    LET name == Strip(fname)
    IN  IF Contains(name, <<" ", "-", " ">>)
        THEN Strip(BeforeFirst(name, <<" ", "-", " ">>))
        ELSE IF Contains(name, <<"_">>)
        THEN Strip(BeforeFirst(name, <<"_">>))
        ELSE IF CamelMatch(name) # <<>>
        THEN CamelMatch(name)
        ELSE IF Len(FirstWord(name)) > 2 /\ IsUpper(FirstWord(name)[1])
        THEN FirstWord(name)
        ELSE IF IdentifierPart(name, ids) # NULL
        THEN IdentifierPart(name, ids)
        ELSE IF AlphaSearch(name) # <<>>
        THEN AlphaSearch(name)
        ELSE S_Unknown

\* values that are not str: a float NaN, and a list (which has no hash)
NAN_VALUE  == <<"NAN">>
LIST_VALUE == <<"LIST">>

\* hash(x) succeeds
Hashable(x) == x # LIST_VALUE

\* The outcome of a call: the value returned, or the exception raised.
Returned(v) == [kind |-> "return", value |-> v]
Raising(e)  == [kind |-> "raise",  value |-> e]

\* line 56: the lru_cache wrapper builds the cache key from the argument
\* before the body runs; an unhashable argument raises TypeError there
extract_project_name(fname, ids) ==
    IF ~Hashable(fname) THEN Raising(<<"TypeError">>)
    ELSE Returned(ExtractBody(fname, ids))

\* functools.lru_cache(maxsize=1000): the entries <<argument, result>>, the
\* most recently used last
CACHE_MAXSIZE == 1000

CacheKeys(c) == {c[i][1] : i \in 1..Len(c)}
CacheIndex(c, x) == CHOOSE i \in 1..Len(c) : c[i][1] = x

\* the cache after a call with argument x that returned v: a hit moves the
\* entry to the end, a miss appends it and evicts the oldest when full
CacheAfter(c, x, v) ==
    LET others == SelectSeq(c, LAMBDA e : e[1] # x)
    IN  IF x \in CacheKeys(c) THEN others \o <<c[CacheIndex(c, x)]>>
        ELSE IF Len(c) >= CACHE_MAXSIZE THEN Tail(c) \o << <<x, v>> >>
        ELSE c \o << <<x, v>> >>

\* the decorated function: a hit returns the stored result
CachedExtract(c, fname, ids) ==
    IF ~Hashable(fname) THEN Raising(<<"TypeError">>)
    ELSE IF fname \in CacheKeys(c) THEN Returned(c[CacheIndex(c, fname)][2])
    ELSE extract_project_name(fname, ids)

----------------------------------------------------------------------------
(* processors.py: process_data_for_dashboard *)

PROCESS_COLUMNS ==
    {"datetimestarted", "flowname", "taskstatus", "flowowner", "wassuccessful",
     "triggertype"}

\* pd.DataFrame()
EmptyFrame == Frame({}, <<>>)

T_unknown    == <<"u","n","k","n","o","w","n">>
T_manual     == <<"m","a","n","u","a","l">>
T_Manual     == <<"M","a","n","u","a","l">>
T_Recurrence == <<"R","e","c","u","r","r","e","n","c","e">>
T_OtherTrigger == <<"O","t","h","e","r","T","r","i","g","g","e","r">>
ServiceAccountSuffix ==
    <<" ","s","e","r","v","i","c","e","a","c","c","o","u","n","t">>

\* str.replace(p, ''): every occurrence of p removed, left to right
RECURSIVE RemoveAll(_, _)
RemoveAll(s, p) ==
    IF s = <<>> THEN <<>>
    ELSE IF StartsWith(s, p) THEN RemoveAll(SubSeq(s, Len(p) + 1, Len(s)), p)
    ELSE <<Head(s)>> \o RemoveAll(Tail(s), p)

\* str.title(): a letter after a letter is lower-cased, any other letter is
\* upper-cased
RECURSIVE TitleFrom(_, _)
TitleFrom(s, afterLetter) ==
    IF s = <<>> THEN <<>>
    ELSE <<IF afterLetter THEN ToLower(Head(s)) ELSE ToUpper(Head(s))>>
         \o TitleFrom(Tail(s), IsAlpha(Head(s)))
Title(s) == TitleFrom(s, FALSE)

\* a variant of OwnerOf that leaves the ' serviceaccount' suffix in place
OwnerOf_KeepsSuffix(flowowner) ==
    IF ~IsStr(flowowner) THEN NULL ELSE Title(flowowner)

\* line 167: flowowner.str.replace(' serviceaccount', '').str.title()
OwnerOf(flowowner) ==
    IF ~IsStr(flowowner) THEN NULL
    ELSE Title(RemoveAll(flowowner, ServiceAccountSuffix))

\* lines 133-142: the columns of PROCESS_COLUMNS that are absent are added
Backfill(d) ==
    LET c == d.columns
        fix(r) ==
          [r EXCEPT
            !.wassuccessful = IF "wassuccessful" \in c THEN @
                              ELSE IF "taskstatus" \in c /\ r.taskstatus = S_Succeeded
                              THEN 1 ELSE 0,
            !.triggertype = IF "triggertype" \in c THEN @ ELSE T_unknown,
            !.datetimestarted = IF "datetimestarted" \in c THEN @ ELSE NULL,
            !.flowname = IF "flowname" \in c THEN @ ELSE NULL,
            !.taskstatus = IF "taskstatus" \in c THEN @ ELSE NULL,
            !.flowowner = IF "flowowner" \in c THEN @ ELSE NULL]
    IN  Frame(c \cup PROCESS_COLUMNS, Map(d.rows, fix))

\* day_filter: None, a value pd.to_datetime cannot parse, or the date d
NoDayFilter == <<>>
BadDayFilter == <<"bad">>
DayFilter(d) == <<"day", d>>

\* lines 145-163: the day filter.  line 147 raises on an unparseable
\* day_filter before the batch is touched, and the batch stays unfiltered;
\* otherwise unparseable datetimestarted become NaT and are dropped with the
\* rows of other dates
ApplyDayFilter(d, dayf) ==
    IF dayf = NoDayFilter \/ dayf = BadDayFilter THEN d
    ELSE LET onDay(r) == IsTs(r.datetimestarted)
                         /\ r.datetimestarted[2] = dayf[2]
         IN  Frame(d.columns, Filter(d.rows, onDay))

\* line 177: np.select on triggertype
TriggerGroup(triggertype) ==
    IF triggertype = T_manual THEN T_Manual
    ELSE IF triggertype = T_Recurrence THEN T_Recurrence
    ELSE T_OtherTrigger

\* line 188: groupby('flowname')['wassuccessful'].transform('mean') * 100,
\* kept as the fraction <<100 * sum, count>>; NaN (<<>>) for a null flowname
SuccessRate(rows, r) ==
    IF IsNull(r.flowname) THEN <<>>
    ELSE LET same == Filter(rows, LAMBDA x : x.flowname = r.flowname)
             ones == Filter(same, LAMBDA x : x.wassuccessful = 1)
         IN  <<100 * Len(ones), Len(same)>>

\* a variant of Derive that builds the display name on top of a display
\* name the row already carries
Derive_StacksDisplayName(r, ids) ==
    LET owner   == OwnerOf(r.flowowner)
        project == extract_project_name(r.flowname, ids).value
    IN  [r EXCEPT
            !.hour = HourOf(r.datetimestarted),
            !.owner = owner,
            !.automation_project = project,
            !.trigger_group = TriggerGroup(r.triggertype),
            !.display_name = DisplayName(owner, project,
                                IF IsStr(r.display_name) THEN r.display_name
                                ELSE r.flowname)]

\* lines 166-188: the derived columns of one row
Derive(r, ids) ==
    LET owner   == OwnerOf(r.flowowner)
        project == extract_project_name(r.flowname, ids).value
    IN  [r EXCEPT
            !.hour = HourOf(r.datetimestarted),
            !.owner = owner,
            !.automation_project = project,
            !.trigger_group = TriggerGroup(r.triggertype),
            !.display_name = DisplayName(owner, project, r.flowname)]

DERIVED_COLUMNS ==
    {"hour", "owner", "automation_project", "trigger_group", "display_name",
     "success_rate"}

\* process_data_for_dashboard(df, day_filter); ids is the iteration order of
\* COMMON_IDENTIFIERS.  An exception in the body (pd.to_datetime on an
\* unparseable datetimestarted on line 166, an unhashable flowname on line
\* 168) is caught on line 196 and the empty DataFrame is returned.
process_data_for_dashboard(d, dayf, ids) ==
    IF d.kind # "frame" \/ IsEmpty(d) THEN EmptyFrame
    ELSE
    LET filled   == ApplyDayFilter(Backfill(d), dayf)
        derive(r) == Derive(r, ids)
        derived  == Map(filled.rows, derive)
        rate(r)  == [r EXCEPT !.success_rate = SuccessRate(derived, r)]
    IN  IF ToDatetimeRaises(filled.rows) THEN EmptyFrame
        ELSE IF \E i \in 1..Len(filled.rows) : ~Hashable(filled.rows[i].flowname)
        THEN EmptyFrame
        ELSE Frame(filled.columns \cup DERIVED_COLUMNS, Map(derived, rate))

----------------------------------------------------------------------------
(* validators.py: validate_raw_data *)

S_succeeded_lower == <<"s","u","c","c","e","e","d","e","d">>
S_completed_lower == <<"c","o","m","p","l","e","t","e","d">>

\* str.lower
Lower(s) == [i \in 1..Len(s) |-> ToLower(s[i])]

\* a variant of FillNa that leaves the null in place
FillNa_KeepsNull(x, v) == x

\* Series.fillna(v) on one cell
FillNa(x, v) == IF IsNull(x) THEN v ELSE x

\* lines 68-71: taskstatus.str.lower().isin(['succeeded', 'completed'])
WasSuccessful(status) ==
    IF IsStr(status) /\ Lower(status) \in {S_succeeded_lower, S_completed_lower}
    THEN 1 ELSE 0

\* validate_raw_data(df) -> (is_valid, message, validated_df)
validate_raw_data(d) ==
    IF d.kind # "frame" \/ IsEmpty(d) THEN [ok |-> FALSE, df |-> NoneDF]
    ELSE IF ~({"flowname", "flowowner", "datetimestarted", "taskstatus"}
                \subseteq d.columns)
    THEN [ok |-> FALSE, df |-> NoneDF]                             \* line 44
    ELSE
    LET c == d.columns
        \* lines 50-59: errors='coerce', and the rows with NaT are removed
        dated == Filter(d.rows, LAMBDA r : IsTs(r.datetimestarted))
        fix(r) ==
          LET status == FillNa(r.taskstatus, S_NoRun)
          IN  [r EXCEPT
                 !.taskstatus = status,
                 !.wassuccessful = IF "wassuccessful" \in c THEN @
                                   ELSE WasSuccessful(status),
                 !.flowowner = FillNa(@, S_Unknown),
                 !.triggertype = IF "triggertype" \in c THEN FillNa(@, T_unknown)
                                 ELSE T_unknown]
    IN  [ok |-> TRUE,
         df |-> Frame(c \cup {"wassuccessful", "triggertype"}, Map(dated, fix))]

----------------------------------------------------------------------------
(* processors.py: create_hourly_matrix *)

MATRIX_COLUMNS == {"display_name", "automation_project", "taskstatus", "hour"}

\* An outcome of create_hourly_matrix: the returned triple and the return
\* statement it left by, or an exception on its way out.
Return(path, cells, entities, hours) ==
    [kind |-> "return", path |-> path,
     cells |-> cells, entities |-> entities, hours |-> hours]
Raised(exc) ==
    [kind |-> "raise", path |-> exc,
     cells |-> EmptyDict, entities |-> <<>>, hours |-> <<>>]

\* a variant of FilterMask that applies the project filter only
FilterMask_IgnoresStatus(r, project, status) ==
    project # AllProjects => r.automation_project = project

\* lines 250-267: the combined filter mask of one row (== on NaN is False)
FilterMask(r, project, status) ==
    /\ project # AllProjects => r.automation_project = project
    /\ status # AllStatuses => r.taskstatus = status

\* line 280: display_name.isna() | (display_name == '')
InvalidDisplayName(r) == IsNull(r.display_name) \/ r.display_name = <<>>

\* lines 288-311: the repair pass.  matrix_df was deleted on line 271, so
\* line 290 raises NameError, which line 309 catches: the pass always fails.
RepairDisplayNames(rows) == [raised |-> TRUE, rows |-> <<>>]

\* lines 323-340: the selection of the top max_rows entities.
\* SeriesGroupBy.apply with a function returning a Series gives one Series
\* indexed by (display_name, statistic), not a table with the columns
\* failed/running/total: status_counts['failed'] on line 334 looks 'failed'
\* up among the display names and raises KeyError (no display name of the
\* model is 'failed').
SelectTopBots(rows, names, maxrows) == [raised |-> TRUE, names |-> <<>>]

\* line 347
InitialMatrix(names, hours) ==
    [n \in Range(names) |-> [h \in Range(hours) |-> S_NoRun]]

\* groupby(['display_name', 'hour']): the keys of the groups; rows with a
\* NaN key are left out
GroupKeys(rows) ==
    {<<rows[i].display_name, rows[i].hour[1]>> :
        i \in {j \in 1..Len(rows) : rows[j].hour # <<>>}}

\* the groups are visited in ascending key order
KeyLess(k1, k2) ==
    StrLess(k1[1], k2[1]) \/ (k1[1] = k2[1] /\ k1[2] < k2[2])

FirstKey(keys) == CHOOSE k \in keys : \A j \in keys \ {k} : KeyLess(k, j)

\* group['taskstatus'].values
GroupValues(rows, key) ==
    LET inGroup(r) == r.display_name = key[1] /\ r.hour = <<key[2]>>
        status(r)  == r.taskstatus
    IN  Map(Filter(rows, inGroup), status)

\* np.unique sorts the values: comparing None with anything raises TypeError
UniqueRaises(values) == Len(values) >= 2 /\ NULL \in Range(values)

\* lines 363-366: max(np.unique(values), key=priority): the first, in
\* ascending order, of the values of highest priority
HighestStatus(values) ==
    LET u    == Range(values)
        best == {x \in u : \A y \in u : STATUS_PRIORITY(y) <= STATUS_PRIORITY(x)}
    IN  CHOOSE x \in best : \A y \in best \ {x} : StrLess(x, y)

\* lines 355-372: the groups fill the matrix; an exception ends the loop and
\* keeps what was filled so far
RECURSIVE FillMatrix(_, _, _)
FillMatrix(cells, keys, rows) ==
    IF keys = {} THEN cells
    ELSE LET k    == FirstKey(keys)
             vals == GroupValues(rows, k)
         IN  IF k[1] \in DOMAIN cells /\ 0 <= k[2] /\ k[2] <= 23
             THEN IF UniqueRaises(vals) THEN cells
                  ELSE FillMatrix([cells EXCEPT ![k[1]][k[2]] = HighestStatus(vals)],
                                  keys \ {k}, rows)
             ELSE FillMatrix(cells, keys \ {k}, rows)

\* lines 383-396: the matrix validation gate and the value returned
\* a variant of ValidatedReturn that takes the names from the sorted keys
ValidatedReturn_SortsNames(cells, names, hours) ==
    LET v == validate_matrix_data(PyDict(cells), PyList(KeysList(DOMAIN cells)),
                                  PyList(hours))
    IN  Return(IF v.ok THEN "validated" ELSE "validation_failed",
               v.data.cells, v.data.entities, v.data.hours)

ValidatedReturn(cells, names, hours) ==
    LET names1 == IF names = <<>> /\ DOMAIN cells # {}
                  THEN KeysList(DOMAIN cells) ELSE names
        v == validate_matrix_data(PyDict(cells), PyList(names1), PyList(hours))
    IN  IF ~v.ok
        THEN Return("validation_failed", v.data.cells, v.data.entities, v.data.hours)
        ELSE Return("validated", v.data.cells, v.data.entities, v.data.hours)

\* lines 313-396: from the display names to the result
BuildMatrix(rows, maxrows, hours) ==
    LET name(r) == r.display_name
        display_names_array == Unique(Map(rows, name))
    IN  IF Len(display_names_array) > maxrows
        THEN LET sel == SelectTopBots(rows, display_names_array, maxrows)
                 kept(r) == r.display_name \in Range(sel.names)
             IN  IF sel.raised THEN Raised("KeyError")
                 ELSE ValidatedReturn(
                        FillMatrix(InitialMatrix(sel.names, hours),
                                   GroupKeys(Filter(rows, kept)), Filter(rows, kept)),
                        sel.names, hours)
        ELSE ValidatedReturn(
                FillMatrix(InitialMatrix(display_names_array, hours),
                           GroupKeys(rows), rows),
                display_names_array, hours)

\* lines 222-396: the body of the try block
CreateHourlyMatrixBody(d, project, status, maxrows) ==
    LET hours == Hours24
    IN  IF d.kind = "none" THEN Return("no_data", EmptyDict, <<>>, hours)
        ELSE IF d.kind = "other" THEN Raised("AttributeError")        \* line 229
        ELSE IF IsEmpty(d) THEN Return("no_data", EmptyDict, <<>>, hours)
        ELSE IF ~validate_processed_data(d).ok
        THEN Return("invalid_processed", EmptyDict, <<>>, hours)      \* line 240
        ELSE IF ~(MATRIX_COLUMNS \subseteq d.columns)
        THEN Return("missing_columns", EmptyDict, <<>>, hours)        \* line 248
        ELSE
        LET mask(r)  == FilterMask(r, project, status)
            filtered == Filter(d.rows, mask)
            valid(r) == ~InvalidDisplayName(r)
            named    == Filter(filtered, valid)
        IN  IF filtered = <<>>
            THEN Return("no_data_after_filter", EmptyDict, <<>>, hours)  \* line 277
            ELSE IF named = <<>>
            THEN LET rep == RepairDisplayNames(filtered)
                 IN  IF rep.raised \/ rep.rows = <<>>
                     THEN Return("repair_failed", EmptyDict, <<>>, hours) \* 308, 311
                     ELSE BuildMatrix(rep.rows, maxrows, hours)
            ELSE BuildMatrix(named, maxrows, hours)

\* a variant of OuterExcept that lets the exception through
OuterExcept_Reraises(outcome) == outcome

\* lines 398-400: the handler of the try block
OuterExcept(outcome) ==
    IF outcome.kind = "raise"
    THEN Return("exception", EmptyDict, <<>>, Hours24)
    ELSE outcome

create_hourly_matrix(d, project, status, maxrows) ==
    OuterExcept(CreateHourlyMatrixBody(d, project, status, maxrows))

-----------------------------------------------------------------------------
(* The effect of the validators and of create_hourly_matrix on the objects   *)
(* passed in.  A local name refers to the caller's object or to another      *)
(* one; an in-place write changes the caller's object only when it is made   *)
(* through a name that refers to it.                                         *)

ARG_OBJECT == "the caller's object"
NEW_OBJECT == "a new object"

\* a variant of CopyRef: validated_df = df, the same object
CopyRef_Aliases(ref) == ref

\* DataFrame.copy() (validators.py 47, 104): another object
CopyRef(ref) == NEW_OBJECT

\* the caller's object after the writes made through ref
ArgAfterWrite(ref, arg, written) == IF ref = ARG_OBJECT THEN written ELSE arg

\* validate_raw_data: the frame passed in, after the call.  The writes of
\* lines 51-54 and 64-82 go to validated_df; line 59 binds the name to a
\* selection, yet another object, when a timestamp was coerced to NaT.
RawArgAfter(d) ==
    IF d.kind # "frame" \/ IsEmpty(d) THEN d
    ELSE IF ~({"flowname", "flowowner", "datetimestarted", "taskstatus"}
                \subseteq d.columns)
    THEN d
    ELSE
    LET validated_df == CopyRef(ARG_OBJECT)                       \* line 47
        coerce(r) == [r EXCEPT !.datetimestarted = IF IsTs(@) THEN @ ELSE NULL]
        coerced == Frame(d.columns, Map(d.rows, coerce))
        rebound == \E i \in 1..Len(d.rows) : ~IsTs(d.rows[i].datetimestarted)
    IN  ArgAfterWrite(validated_df, d,
                      IF rebound THEN coerced ELSE validate_raw_data(d).df)

\* validate_processed_data: the frame passed in, after the call.  Every write
\* of lines 106-136 goes to validated_df; when line 119 raises, the columns
\* of lines 106-115 have been written.
ProcessedArgAfter(d) ==
    IF d.kind # "frame" \/ IsEmpty(d) THEN d
    ELSE
    LET validated_df == CopyRef(ARG_OBJECT)                       \* line 104
        v == validate_processed_data(d)
    IN  ArgAfterWrite(validated_df, d, IF v.ok THEN v.df ELSE SynthRequired(d))

\* validate_matrix_data: the three objects passed in, after the call.  The
\* dict is only read (line 195); display_names and hours are rebound (lines
\* 162, 167, 177, 183), and the loop writes to the dict made on line 186.
MatrixArgsAfter(a) ==
    IF a.bot_hour_status.t # "dict" THEN a
    ELSE
    LET valid_bot_hour_status == NEW_OBJECT                       \* line 186
        v == validate_matrix_data(a.bot_hour_status, a.display_names, a.hours)
    IN  ArgAfterWrite(valid_bot_hour_status, a,
                      [a EXCEPT !.bot_hour_status = PyDict(v.data.cells)])

\* create_hourly_matrix: the frame passed in, after the call.  df is handed
\* to validate_processed_data (line 234); everything after works on
\* df[list(MATRIX_COLUMNS)].copy() (line 246) and on selections of it.
BuilderArgAfter(d) ==
    IF d.kind # "frame" \/ IsEmpty(d) THEN d ELSE ProcessedArgAfter(d)

----------------------------------------------------------------------------
(* Calls of create_hourly_matrix on bounded batches *)

MaxBatch == 3       \* rows of a batch handed to create_hourly_matrix
MaxCap   == 2       \* the small values of max_rows
DefaultMaxRows == 300

N_A == <<"A">>
N_B == <<"B">>
N_C == <<"C">>
P_P == <<"P">>
P_Q == <<"Q">>
S_Weird == <<"W","e","i","r","d">>     \* a status outside the priority table

\* a row of a normalized batch; the hour column agrees with datetimestarted
\* when the hour is one of a day, as process_data_for_dashboard derives it
MRow(name, project, status, hour) ==
    [display_name |-> name, automation_project |-> project,
     taskstatus |-> status, hour |-> hour,
     datetimestarted |-> IF hour # <<>> /\ hour[1] \in 0..23
                         THEN Ts(1, hour[1]) ELSE NULL,
     flowname |-> N_A, flowowner |-> N_A, owner |-> N_A,
     wassuccessful |-> IF status = S_Succeeded THEN 1 ELSE 0,
     triggertype |-> T_unknown, trigger_group |-> T_OtherTrigger,
     success_rate |-> <<>>]

MatrixRows ==
    { MRow(N_A, P_P, S_Failed,     <<2>>),
      MRow(N_A, P_P, S_Succeeded,  <<2>>),
      MRow(N_A, P_Q, S_Running,    <<14>>),
      MRow(N_A, P_P, S_Weird,      <<2>>),
      MRow(N_A, P_P, <<>>,         <<0>>),
      MRow(N_B, P_P, S_Succeeded,  <<2>>),
      MRow(N_B, P_Q, S_Error,      <<2>>),
      MRow(N_B, P_P, NULL,         <<2>>),
      MRow(N_B, P_P, S_InProgress, <<24>>),
      MRow(N_B, P_P, S_Failed,     <<>>),
      MRow(N_C, P_P, S_Skipped,    <<23>>),
      MRow(NULL, P_P, S_Failed,    <<2>>),
      MRow(<<>>, P_Q, S_Succeeded, <<2>>) }

Batches(R, n) == UNION {[1..k -> R] : k \in 0..n}

ALL_COLUMNS == PROCESS_COLUMNS \cup DERIVED_COLUMNS

\* the column sets of the batches: complete, or lacking one column
ColumnSets ==
    {ALL_COLUMNS} \cup {ALL_COLUMNS \ {c} : c \in {"hour", "display_name", "owner"}}

MaxRowsValues == {-1, DefaultMaxRows} \cup 0..MaxCap

\* no validator call is under way
NotValidated == [ok |-> FALSE, message |-> "not called"]
NoMatrixArgs == [bot_hour_status |-> PyOther, display_names |-> PyOther, hours |-> PyOther]
ValidatorIdle ==
    /\ matrix_args = NoMatrixArgs
    /\ validated = NotValidated

\* no call of extract_project_name is under way
\* no thread is calling
NoThreads == <<>>

ExtractIdle ==
    /\ threads = NoThreads
    /\ stages = <<>>
    /\ id_order = COMMON_IDENTIFIERS
    /\ flow_name = NULL
    /\ extracted = Raising(<<"not called">>)
    /\ cache = <<>>

InitMatrix ==
    /\ ValidatorIdle
    /\ pc = "matrix_start"
    /\ \/ /\ df \in {Frame(ALL_COLUMNS, b) : b \in Batches(MatrixRows, MaxBatch)}
          /\ selected_project \in {AllProjects, P_P}
          /\ selected_status \in {AllStatuses, S_Failed}
          /\ max_rows \in MaxRowsValues
       \/ /\ df \in {NoneDF, OtherDF, Frame({}, <<>>)}
                \cup {Frame(c, b) : c \in ColumnSets \ {ALL_COLUMNS},
                                    b \in Batches(MatrixRows, 1)}
          /\ selected_project = AllProjects
          /\ selected_status = AllStatuses
          /\ max_rows = DefaultMaxRows
    /\ matrix = Raised("not called")
    /\ raw_df = NoneDF
    /\ day_filter = NoDayFilter
    /\ ExtractIdle

\* the caller invokes create_hourly_matrix
CallCreateHourlyMatrix ==
    /\ pc = "matrix_start"
    /\ matrix' = create_hourly_matrix(df, selected_project, selected_status, max_rows)
    /\ pc' = "matrix_done"
    /\ df' = BuilderArgAfter(df)
    /\ UNCHANGED <<selected_project, selected_status, max_rows, raw_df,
                   day_filter, id_order, flow_name, extracted, cache>>
    /\ UNCHANGED validatorVars
    /\ UNCHANGED <<threads, stages>>

NextMatrix == CallCreateHourlyMatrix

SpecMatrix == InitMatrix /\ [][NextMatrix]_vars

----------------------------------------------------------------------------
(* create_hourly_matrix called again on the same rows in another arrangement *)

MaxRearranged == 2      \* rows of a batch that is rearranged

\* the rows in another order, or with one of them appended once more
Rearrangements(rows) ==
    {[i \in 1..Len(rows) |-> rows[p[i]]] : p \in Permutations(1..Len(rows))}
        \cup {rows \o <<rows[i]>> : i \in 1..Len(rows)}

InitRearrange ==
    /\ ValidatorIdle
    /\ pc = "matrix_start"
    /\ df \in {Frame(ALL_COLUMNS, b) : b \in Batches(MatrixRows, MaxRearranged)}
    /\ selected_project \in {AllProjects, P_P}
    /\ selected_status \in {AllStatuses, S_Failed}
    /\ max_rows = DefaultMaxRows
    /\ matrix = Raised("not called")
    /\ raw_df = NoneDF
    /\ day_filter = NoDayFilter
    /\ ExtractIdle

\* a second call of create_hourly_matrix, with the same selections, on a
\* rearrangement of the batch of the first call
CallOnRearranged ==
    /\ pc = "matrix_done"
    /\ \E rows \in Rearrangements(df.rows) :
          /\ df' = Frame(df.columns, rows)
          /\ matrix' = create_hourly_matrix(df', selected_project, selected_status,
                                            max_rows)
    /\ pc' = "matrix_redone"
    /\ UNCHANGED <<selected_project, selected_status, max_rows, raw_df,
                   day_filter, id_order, flow_name, extracted, cache>>
    /\ UNCHANGED validatorVars
    /\ UNCHANGED <<threads, stages>>

NextRearrange == CallCreateHourlyMatrix \/ CallOnRearranged

SpecRearrange == InitRearrange /\ [][NextRearrange]_vars

----------------------------------------------------------------------------
(* Properties of create_hourly_matrix *)

MatrixDone == pc = "matrix_done"

\* the batch has the four matrix columns, so that the builder reads its rows
Readable == df.kind = "frame" /\ ~IsEmpty(df) /\ MATRIX_COLUMNS \subseteq df.columns

\* the rows that pass the two filters and carry a usable display name
WorkingSet ==
    LET keep(r) == FilterMask(r, selected_project, selected_status)
                   /\ ~InvalidDisplayName(r)
    IN  IF Readable THEN Filter(df.rows, keep) ELSE <<>>

WorkingNames == {WorkingSet[i].display_name : i \in 1..Len(WorkingSet)}

\* the statuses of the rows of the working set in bucket (e, h)
Bucket(e, h) ==
    {WorkingSet[i].taskstatus :
        i \in {j \in 1..Len(WorkingSet) :
                 WorkingSet[j].display_name = e /\ WorkingSet[j].hour = <<h>>}}

NoDuplicates(s) == \A i, j \in 1..Len(s) : s[i] = s[j] => i = j

\* C1: for every entity of the returned entities list, cells holds an hour
\* map for it whose key set is exactly the returned hours, 0..23.
C1_CellsCoverHours ==
    MatrixDone =>
        /\ Range(matrix.hours) = 0..23
        /\ \A i \in 1..Len(matrix.entities) :
              /\ matrix.entities[i] \in DOMAIN matrix.cells
              /\ DOMAIN matrix.cells[matrix.entities[i]] = Range(matrix.hours)

\* C1 witness: a matrix of two entities, built from a batch that also holds
\* a row with an hour outside 0..23.
C1_Witness ==
    /\ MatrixDone
    /\ Len(matrix.entities) = 2
    /\ \E i \in 1..Len(df.rows) : df.rows[i].hour = <<24>>
    /\ \E e \in DOMAIN matrix.cells : matrix.cells[e][2] # S_NoRun

\* the closed status vocabulary of the presentation layer
Vocabulary ==
    {S_Succeeded, S_Failed, S_Running, S_NoRun, S_Completed, S_Canceled,
     S_Suspended, S_Skipped, S_Error, S_TimedOut}

\* C2 as stated: every cell value of the returned matrix is drawn from the
\* closed status vocabulary.
C2_ClosedVocabulary ==
    MatrixDone =>
        \A e \in DOMAIN matrix.cells : \A h \in DOMAIN matrix.cells[e] :
            matrix.cells[e][h] \in Vocabulary

\* C2 amended: every cell value of the returned matrix is "No Run" or a
\* non-empty string that is the taskstatus of a row of the batch with that
\* display_name and hour (statuses are passed through, not mapped).
C2_CellsFromBatch ==
    MatrixDone =>
        \A e \in DOMAIN matrix.cells : \A h \in DOMAIN matrix.cells[e] :
            \/ matrix.cells[e][h] = S_NoRun
            \/ /\ IsStr(matrix.cells[e][h])
               /\ matrix.cells[e][h] # <<>>
               /\ matrix.cells[e][h] \in Bucket(e, h)

\* C2 witness: a returned cell holds a status outside the priority table,
\* and the batch also holds a row with a null status.
C2_Witness ==
    /\ MatrixDone
    /\ \E e \in DOMAIN matrix.cells : matrix.cells[e][2] = S_Weird
    /\ \E i \in 1..Len(df.rows) : df.rows[i].taskstatus = NULL

\* a missing or empty status counts as "No Run"
Canonical(status) == IF IsNull(status) \/ status = <<>> THEN S_NoRun ELSE status

\* C3 as stated: for every kept entity e and hour h in 0..23, the cell is
\* "No Run" when bucket (e, h) of the filtered working set is empty, and
\* otherwise a status of the bucket of maximal priority (a null or empty
\* status of the bucket read as "No Run").
C3_PriorityReduction ==
    MatrixDone =>
        \A i \in 1..Len(matrix.entities) : \A h \in 0..23 :
            LET e == matrix.entities[i]
                b == {Canonical(x) : x \in Bucket(e, h)}
            IN  IF b = {} THEN matrix.cells[e][h] = S_NoRun
                ELSE /\ matrix.cells[e][h] \in b
                     /\ \A x \in b :
                          STATUS_PRIORITY(x) <= STATUS_PRIORITY(matrix.cells[e][h])

\* C4: on every return path the third component of the result is the
\* ordered list [0, 1, ..., 23].
C4_HoursFixed ==
    MatrixDone => matrix.kind = "return" /\ matrix.hours = [i \in 1..24 |-> i - 1]

\* C4 witness: the call left through the matrix validation gate with a
\* non-empty matrix.
C4_Witness ==
    MatrixDone /\ matrix.path = "validated" /\ matrix.entities # <<>>

ReturnPaths ==
    {"no_data", "invalid_processed", "missing_columns", "no_data_after_filter",
     "repair_failed", "validation_failed", "validated", "exception"}

\* C6: every call ends by returning a triple; no exception escapes, and a
\* call that did not pass the matrix validation gate returns the empty
\* matrix.
C6_NoExceptionEscapes ==
    MatrixDone =>
        /\ matrix.kind = "return"
        /\ matrix.path \in ReturnPaths
        /\ matrix.path # "validated" =>
              matrix.cells = EmptyDict /\ matrix.entities = <<>>

\* C6 witness: an exception was raised inside the call and caught.
C6_Witness ==
    MatrixDone /\ matrix.kind = "return" /\ matrix.path = "exception"

\* C7: for a non-negative max_rows the returned entities list holds no
\* display_name twice and at most max_rows names.
C7_EntitiesDistinctCapped ==
    (MatrixDone /\ max_rows >= 0) =>
        NoDuplicates(matrix.entities) /\ Len(matrix.entities) <= max_rows

\* C7 witness: three rows of two entities give exactly max_rows = 2 names.
C7_Witness ==
    /\ MatrixDone
    /\ max_rows = 2
    /\ Len(WorkingSet) = 3
    /\ Len(matrix.entities) = 2

\* the entities of the working set with at least one "Failed" row
FailingNames ==
    {WorkingSet[i].display_name :
        i \in {j \in 1..Len(WorkingSet) : WorkingSet[j].taskstatus = S_Failed}}

\* C8 as stated: when the distinct entities exceed max_rows and the failing
\* entities are at most max_rows, every failing entity is in the returned
\* entities list.
C8_FailingEntitiesKept ==
    (/\ MatrixDone
     /\ Cardinality(WorkingNames) > max_rows
     /\ Cardinality(FailingNames) <= max_rows) =>
        FailingNames \subseteq Range(matrix.entities)

----------------------------------------------------------------------------
(* process_data_for_dashboard followed by create_hourly_matrix *)

MaxRaw == 3         \* rows of a raw batch

F_Nightly == <<"W","F"," ","-"," ","N","i","g","h","t","l","y"," ","S","y","n","c">>
F_DataSync == <<"C","2","D","_","D","a","t","a","S","y","n","c">>
F_AzPs == <<"a","z"," ","p","s">>
O_Svc01 ==
    <<"s","v","c","0","1"," ","s","e","r","v","i","c","e","a","c","c","o","u","n","t">>
O_Ann == <<"a","n","n"," ","l","e","e">>

RAW_COLUMNS == {"flowname", "flowowner", "datetimestarted", "taskstatus"}

\* a row of a raw batch; the cells of the columns it lacks are not read
RawRow(flowname, flowowner, started, status) ==
    [flowname |-> flowname, flowowner |-> flowowner, datetimestarted |-> started,
     taskstatus |-> status, wassuccessful |-> 0, triggertype |-> NULL,
     hour |-> <<>>, owner |-> NULL, automation_project |-> NULL,
     trigger_group |-> NULL, display_name |-> NULL, success_rate |-> <<>>]

Nightly2S  == RawRow(F_Nightly, O_Svc01, Ts(1, 2),  S_Succeeded)
Nightly2F  == RawRow(F_Nightly, O_Svc01, Ts(1, 2),  S_Failed)
Nightly14R == RawRow(F_Nightly, O_Svc01, Ts(1, 14), S_Running)

RawRows ==
    { Nightly2S, Nightly2F, Nightly14R,
      RawRow(NULL,       O_Svc01,   Ts(1, 2), S_Failed),
      RawRow(F_Nightly,  NULL,      Ts(1, 3), S_Failed),
      RawRow(S_Unknown,  T_unknown, Ts(1, 2), S_Succeeded),
      RawRow(F_DataSync, O_Ann,     BadTs,    S_Succeeded),
      RawRow(F_AzPs,     O_Ann,     Ts(2, 3), S_Completed),
      RawRow(F_DataSync, O_Ann,     NULL,     S_Running) }

\* two iteration orders of the frozenset COMMON_IDENTIFIERS
RECURSIVE Reverse(_)
Reverse(s) == IF s = <<>> THEN <<>> ELSE Reverse(Tail(s)) \o <<Head(s)>>
IdOrders == {COMMON_IDENTIFIERS, Reverse(COMMON_IDENTIFIERS)}

InitPipeline ==
    /\ ValidatorIdle
    /\ threads = NoThreads
    /\ stages = <<>>
    /\ pc = "raw"
    /\ \/ raw_df \in {Frame(RAW_COLUMNS, b) : b \in Batches(RawRows, MaxRaw)}
       \/ raw_df \in {NoneDF, OtherDF}
                 \cup {Frame(RAW_COLUMNS \ {c}, b) :
                          c \in RAW_COLUMNS, b \in Batches(RawRows, 1) \ {<<>>}}
    /\ day_filter \in {NoDayFilter, BadDayFilter, DayFilter(1)}
    /\ id_order \in IdOrders
    /\ df = NoneDF
    /\ selected_project = AllProjects
    /\ selected_status = AllStatuses
    /\ max_rows = DefaultMaxRows
    /\ matrix = Raised("not called")
    /\ flow_name = NULL
    /\ extracted = Raising(<<"not called">>)
    /\ cache = <<>>

\* process_data_for_dashboard(raw_df, day_filter)
Normalize ==
    /\ pc = "raw"
    /\ df' = process_data_for_dashboard(raw_df, day_filter, id_order)
    /\ pc' = "normalized"
    /\ UNCHANGED <<raw_df, day_filter, selected_project, selected_status, max_rows,
                   matrix, id_order, flow_name, extracted, cache>>
    /\ UNCHANGED validatorVars
    /\ UNCHANGED <<threads, stages>>

\* create_hourly_matrix on the normalized batch, with the default filters and
\* the default max_rows
BuildFromNormalized ==
    /\ pc = "normalized"
    /\ matrix' = create_hourly_matrix(df, selected_project, selected_status, max_rows)
    /\ pc' = "pipeline_done"
    /\ df' = BuilderArgAfter(df)
    /\ UNCHANGED <<raw_df, day_filter, selected_project, selected_status,
                   max_rows, id_order, flow_name, extracted, cache>>
    /\ UNCHANGED validatorVars
    /\ UNCHANGED <<threads, stages>>

\* process_data_for_dashboard applied to its own output, with the same
\* day_filter or with none
ReNormalize ==
    /\ pc = "normalized"
    /\ \E f \in {day_filter, NoDayFilter} :
          df' = process_data_for_dashboard(df, f, id_order)
    /\ pc' = "renormalized"
    /\ UNCHANGED <<raw_df, day_filter, selected_project, selected_status, max_rows,
                   matrix, id_order, flow_name, extracted, cache>>
    /\ UNCHANGED validatorVars
    /\ UNCHANGED <<threads, stages>>

NextPipeline == Normalize \/ BuildFromNormalized \/ ReNormalize

SpecPipeline == InitPipeline /\ [][NextPipeline]_vars

-----------------------------------------------------------------------------
(* The dashboard's main flow (bot_monitor_dashboard.py 527-558), from the    *)
(* batch that filter_data_by_date returned (not empty, line 534): the calls  *)
(* it makes, in order, are recorded in `stages`.                             *)

\* lines 233-240, 313-372, 383-396: the gates and the aggregation that a call
\* of create_hourly_matrix went through, given the way it returned
StagesOf(outcome) ==
    IF outcome.path = "no_data" THEN <<>>
    ELSE IF outcome.path \in {"validated", "validation_failed"}
    THEN <<"validate_processed_data", "aggregate", "validate_matrix_data">>
    ELSE <<"validate_processed_data">>

\* lines 544-549: the choices of the two select boxes
ProjectChoices(d) ==
    {AllProjects} \cup {d.rows[i].automation_project : i \in 1..Len(d.rows)}
StatusChoices(d) ==
    {AllStatuses} \cup {d.rows[i].taskstatus : i \in 1..Len(d.rows)}

InitMain ==
    /\ ValidatorIdle
    /\ threads = NoThreads
    /\ stages = <<>>
    /\ pc = "main_filtered"
    /\ raw_df \in {Frame(RAW_COLUMNS, b) : b \in Batches(RawRows, MaxRaw) \ {<<>>}}
    /\ day_filter = NoDayFilter
    /\ id_order = COMMON_IDENTIFIERS
    /\ df = NoneDF
    /\ selected_project = AllProjects
    /\ selected_status = AllStatuses
    /\ max_rows = DefaultMaxRows
    /\ matrix = Raised("not called")
    /\ flow_name = NULL
    /\ extracted = Raising(<<"not called">>)
    /\ cache = <<>>

\* line 539: processed_df = process_data_for_dashboard(filtered_df)
MainProcess ==
    /\ pc = "main_filtered"
    /\ df' = process_data_for_dashboard(raw_df, NoDayFilter, id_order)
    /\ stages' = stages \o <<"process_data_for_dashboard">>
    /\ pc' = IF IsEmpty(df') THEN "main_done" ELSE "main_processed"    \* line 541
    /\ UNCHANGED <<raw_df, day_filter, selected_project, selected_status, max_rows,
                   matrix, id_order, flow_name, extracted, cache, matrix_args,
                   validated, threads>>

\* lines 543-558: the selections, and create_hourly_matrix with the default
\* max_rows
MainMatrix ==
    /\ pc = "main_processed"
    /\ selected_project' \in ProjectChoices(df)
    /\ selected_status' \in StatusChoices(df)
    /\ matrix' = create_hourly_matrix(df, selected_project', selected_status',
                                      max_rows)
    /\ stages' = stages \o <<"create_hourly_matrix">> \o StagesOf(matrix')
    /\ pc' = "main_done"
    /\ df' = BuilderArgAfter(df)
    /\ UNCHANGED <<raw_df, day_filter, max_rows, id_order, flow_name,
                   extracted, cache, matrix_args, validated, threads>>

NextMain == MainProcess \/ MainMatrix

SpecMain == InitMain /\ [][NextMain]_vars

----------------------------------------------------------------------------
(* Calls of extract_project_name *)

MaxNameLen == 4     \* characters of a drawn flow name
MaxCached == 2      \* entries of the cache

NameChars == {" ", "-", "_", "A", "Z", "b", "z", "2"}

F_Amz == <<"A","M","Z"," ","-"," ","O","r","d","e","r"," ",
           "P","r","o","c","e","s","s","i","n","g">>
F_Finance == <<"F","i","n","a","n","c","e","R","e","p","o","r","t",
               "G","e","n","e","r","a","t","o","r">>
F_Mixed == <<"A","b"," ","-"," ","c","_","d">>
F_UpperAzPs == <<"A","Z"," ","P","S">>

\* flow names written out in full
ExampleNames == {F_Amz, F_DataSync, F_Finance, F_Mixed, F_AzPs, F_UpperAzPs, F_Nightly}

NameArgs ==
    UNION {[1..k -> NameChars] : k \in 0..MaxNameLen}
        \cup ExampleNames
        \cup {NULL, NAN_VALUE, LIST_VALUE}

InitExtract ==
    /\ ValidatorIdle
    /\ threads = NoThreads
    /\ stages = <<>>
    /\ pc = "extract_start"
    /\ flow_name \in NameArgs
    /\ id_order \in IdOrders
    /\ extracted = Raising(<<"not called">>)
    /\ cache = <<>>
    /\ raw_df = NoneDF
    /\ day_filter = NoDayFilter
    /\ df = NoneDF
    /\ selected_project = AllProjects
    /\ selected_status = AllStatuses
    /\ max_rows = DefaultMaxRows
    /\ matrix = Raised("not called")

\* a call extract_project_name(flow_name) through the lru_cache wrapper
CallExtract ==
    /\ pc = "extract_start"
    /\ extracted' = CachedExtract(cache, flow_name, id_order)
    /\ cache' = IF extracted'.kind = "return"
                THEN CacheAfter(cache, flow_name, extracted'.value)
                ELSE cache
    /\ pc' = "extract_done"
    /\ UNCHANGED <<raw_df, day_filter, df, selected_project, selected_status,
                   max_rows, matrix, id_order, flow_name>>
    /\ UNCHANGED validatorVars
    /\ UNCHANGED <<threads, stages>>

\* a later call in the same process: the same name again, or another one
CallExtractAgain ==
    /\ pc = "extract_done"
    /\ \E x \in {flow_name, F_AzPs, F_Mixed} :
        /\ x \in CacheKeys(cache) \/ Len(cache) < MaxCached
        /\ flow_name' = x
        /\ extracted' = CachedExtract(cache, x, id_order)
        /\ cache' = IF extracted'.kind = "return"
                    THEN CacheAfter(cache, x, extracted'.value)
                    ELSE cache
    /\ UNCHANGED <<pc, raw_df, day_filter, df, selected_project, selected_status,
                   max_rows, matrix, id_order>>
    /\ UNCHANGED validatorVars
    /\ UNCHANGED <<threads, stages>>

\* the process ends and another one starts: the cache is empty again, and
\* string hashing gives the frozenset COMMON_IDENTIFIERS an order of its own
Restart ==
    /\ pc = "extract_done"
    /\ cache' = <<>>
    /\ id_order' \in IdOrders
    /\ UNCHANGED <<pc, raw_df, day_filter, df, selected_project, selected_status,
                   max_rows, matrix, flow_name, extracted>>
    /\ UNCHANGED validatorVars
    /\ UNCHANGED <<threads, stages>>

NextExtract == CallExtract \/ CallExtractAgain \/ Restart

SpecExtract == InitExtract /\ [][NextExtract]_vars

-----------------------------------------------------------------------------
(* Threads calling extract_project_name at once (processors.py 56).          *)
(* functools.lru_cache looks the key up and, on a hit, moves the entry and   *)
(* returns in one step; on a miss it runs the function with no lock held,    *)
(* so that other threads run meanwhile, and stores the result in a second    *)
(* step, which looks the key up again.                                       *)

MaxThreads == 2     \* threads calling at once
MaxCalls == 1       \* calls of one thread

Threads == 1..MaxThreads

Digit(n) == <<"0", "1", "2", "3", "4", "5", "6", "7", "8", "9">>[n + 1]

\* the names of earlier calls, which fill the cache: 'bot0001', 'bot0002', ...
FillerName(i) ==
    <<"b", "o", "t", Digit((i \div 1000) % 10), Digit((i \div 100) % 10),
      Digit((i \div 10) % 10), Digit(i % 10)>>

\* the cache after calls on n names, one after the other
PrefilledCache(n, ids) ==
    [i \in 1..n |-> <<FillerName(i), ExtractBody(FillerName(i), ids)>>]

\* the arguments of the concurrent calls: the oldest cached name, and two
\* names that are not cached
CallerNames == {FillerName(1), F_AzPs, F_Mixed}

IdleThread ==
    [pos |-> "idle", name |-> NULL, hit |-> FALSE, calls |-> 0,
     result |-> Raising(<<"not called">>)]

CacheStore_AppendsAlways(c, x, v) == c \o << <<x, v>> >>

\* the store after a miss: nothing when another thread stored the key
\* meanwhile, else the entry is added, in place of the oldest one when the
\* cache is full
CacheStore(c, x, v) ==
    IF x \in CacheKeys(c) THEN c
    ELSE IF Len(c) >= CACHE_MAXSIZE THEN Tail(c) \o << <<x, v>> >>
    ELSE c \o << <<x, v>> >>

InitThreads ==
    /\ ValidatorIdle
    /\ pc = "callers"
    /\ id_order \in IdOrders
    /\ cache \in {<<>>, PrefilledCache(CACHE_MAXSIZE - 1, id_order)}
    /\ threads = [t \in Threads |-> IdleThread]
    /\ stages = <<>>
    /\ flow_name = NULL
    /\ extracted = Raising(<<"not called">>)
    /\ raw_df = NoneDF
    /\ day_filter = NoDayFilter
    /\ df = NoneDF
    /\ selected_project = AllProjects
    /\ selected_status = AllStatuses
    /\ max_rows = DefaultMaxRows
    /\ matrix = Raised("not called")

CallerFrame ==
    UNCHANGED <<pc, raw_df, day_filter, df, selected_project, selected_status,
                max_rows, matrix, id_order, flow_name, extracted, matrix_args,
                validated, stages>>

\* thread t calls with a name the cache holds: the stored result is returned
CacheHit(t) ==
    /\ pc = "callers"
    /\ threads[t].pos \in {"idle", "done"}
    /\ threads[t].calls < MaxCalls
    /\ \E x \in CallerNames :
          /\ x \in CacheKeys(cache)
          /\ LET stored == cache[CacheIndex(cache, x)][2]
             IN  /\ cache' = CacheAfter(cache, x, stored)
                 /\ threads' = [threads EXCEPT ![t] =
                       [pos |-> "done", name |-> x, hit |-> TRUE,
                        calls |-> @.calls + 1, result |-> Returned(stored)]]
    /\ CallerFrame

\* thread t calls with a name the cache does not hold: the function runs
CacheMiss(t) ==
    /\ pc = "callers"
    /\ threads[t].pos \in {"idle", "done"}
    /\ threads[t].calls < MaxCalls
    /\ \E x \in CallerNames :
          /\ x \notin CacheKeys(cache)
          /\ threads' = [threads EXCEPT ![t] =
                [pos |-> "computing", name |-> x, hit |-> FALSE,
                 calls |-> @.calls, result |-> Raising(<<"not called">>)]]
    /\ cache' = cache
    /\ CallerFrame

\* the function of thread t has returned: the result is stored and returned
StoreResult(t) ==
    /\ pc = "callers"
    /\ threads[t].pos = "computing"
    /\ LET v == ExtractBody(threads[t].name, id_order)
       IN  /\ cache' = CacheStore(cache, threads[t].name, v)
           /\ threads' = [threads EXCEPT ![t] =
                 [@ EXCEPT !.pos = "done", !.calls = @ + 1,
                           !.result = Returned(v)]]
    /\ CallerFrame

NextThreads ==
    \/ \E t \in Threads : CacheHit(t)
    \/ \E t \in Threads : CacheMiss(t)
    \/ \E t \in Threads : StoreResult(t)

SpecThreads == InitThreads /\ [][NextThreads]_vars

----------------------------------------------------------------------------
(* Calls of validate_matrix_data *)

MaxNames == 2       \* names in a display_names list

\* the names of the calls: two usable ones, the empty string and None
CallNames == {N_A, N_B, <<>>, NULL}

\* the values of a bot_hour_status dict: hour maps (with a None status, an
\* empty status, and an hour outside the axis), and None in place of a map
HourMaps ==
    { EmptyDict,
      (2 :> S_Failed),
      (2 :> NULL) @@ (5 :> <<>>) @@ (14 :> S_Running),
      (1 :> S_Succeeded) @@ (30 :> S_Failed),
      NULL }

HourLists == { <<>>, <<0, 1, 2>>, <<2, 24>>, <<-1, 24>>, Hours24 }

InitValidateMatrix ==
    /\ pc = "validate_matrix_start"
    /\ \E bhs \in {PyOther} \cup {PyDict(m) : m \in UNION {[K -> HourMaps] : K \in SUBSET {N_A, <<>>}}},
          names \in {PyOther} \cup {PyList(s) : s \in Batches(CallNames, MaxNames)},
          hrs \in {PyOther} \cup {PyList(h) : h \in HourLists} :
          matrix_args = [bot_hour_status |-> bhs, display_names |-> names, hours |-> hrs]
    /\ validated = NotValidated
    /\ raw_df = NoneDF
    /\ day_filter = NoDayFilter
    /\ df = NoneDF
    /\ selected_project = AllProjects
    /\ selected_status = AllStatuses
    /\ max_rows = DefaultMaxRows
    /\ matrix = Raised("not called")
    /\ ExtractIdle

\* a call validate_matrix_data(bot_hour_status, display_names, hours)
CallValidateMatrix ==
    /\ pc = "validate_matrix_start"
    /\ validated' = validate_matrix_data(matrix_args.bot_hour_status,
                                         matrix_args.display_names,
                                         matrix_args.hours)
    /\ matrix_args' = MatrixArgsAfter(matrix_args)
    /\ pc' = "validate_matrix_done"
    /\ UNCHANGED <<raw_df, day_filter, df, selected_project, selected_status,
                   max_rows, matrix, id_order, flow_name, extracted, cache,
                   threads, stages>>

NextValidateMatrix == CallValidateMatrix

SpecValidateMatrix == InitValidateMatrix /\ [][NextValidateMatrix]_vars

----------------------------------------------------------------------------
(* Calls of validate_processed_data *)

MaxProcessed == 2   \* rows of a batch handed to validate_processed_data

\* rows as process_data_for_dashboard leaves them, and one row whose
\* datetimestarted cannot be parsed
ProcessedRows ==
    { process_data_for_dashboard(Frame(RAW_COLUMNS, <<r>>), NoDayFilter,
                                 COMMON_IDENTIFIERS).rows[1] :
        r \in {x \in RawRows : x.datetimestarted # BadTs} }
    \cup { RawRow(F_DataSync, O_Ann, BadTs, S_Succeeded) }

\* the column sets of the batches: any of these five columns may be absent
ProcessedColumnSets ==
    {ALL_COLUMNS \ lacking :
        lacking \in SUBSET {"datetimestarted", "hour", "owner", "flowowner",
                            "display_name"}}

InitValidateProcessed ==
    /\ ValidatorIdle
    /\ pc = "validate_processed_start"
    /\ df \in {NoneDF, OtherDF, Frame({}, <<>>)}
              \cup {Frame(c, b) : c \in ProcessedColumnSets,
                                  b \in Batches(ProcessedRows, MaxProcessed)}
    /\ raw_df = NoneDF
    /\ day_filter = NoDayFilter
    /\ selected_project = AllProjects
    /\ selected_status = AllStatuses
    /\ max_rows = DefaultMaxRows
    /\ matrix = Raised("not called")
    /\ ExtractIdle

\* a call validate_processed_data(df)
CallValidateProcessed ==
    /\ pc = "validate_processed_start"
    /\ validated' = validate_processed_data(df)
    /\ pc' = "validate_processed_done"
    /\ df' = ProcessedArgAfter(df)
    /\ UNCHANGED <<raw_df, day_filter, selected_project, selected_status,
                   max_rows, matrix, id_order, flow_name, extracted, cache,
                   matrix_args, threads, stages>>

NextValidateProcessed == CallValidateProcessed

SpecValidateProcessed == InitValidateProcessed /\ [][NextValidateProcessed]_vars

----------------------------------------------------------------------------
(* Calls of validate_raw_data *)

MaxRawValidated == 2    \* rows of a batch handed to validate_raw_data

S_COMPLETED_upper == <<"C","O","M","P","L","E","T","E","D">>

\* rows of raw batches: null status, null owner, null and given trigger
\* type, unparseable and null timestamps
RawValidatedRows ==
    { Nightly2S,
      RawRow(F_AzPs,     NULL,    Ts(1, 3), NULL),
      RawRow(F_DataSync, O_Ann,   Ts(2, 5), S_COMPLETED_upper),
      [RawRow(F_AzPs, O_Ann, Ts(1, 7), S_Failed) EXCEPT !.triggertype = T_manual],
      [RawRow(F_AzPs, O_Ann, Ts(1, 7), S_Failed) EXCEPT !.wassuccessful = 1],
      RawRow(F_DataSync, O_Ann,   BadTs,    S_Succeeded),
      RawRow(F_DataSync, NULL,    NULL,     S_Running) }

\* the four required columns, with or without the two optional ones, or
\* lacking some of the required ones
RawColumnSets ==
    {RAW_COLUMNS \cup extra : extra \in SUBSET {"triggertype", "wassuccessful"}}
    \cup {RAW_COLUMNS \ {c} : c \in RAW_COLUMNS}
    \cup {{"flowname", "taskstatus", "triggertype"}}

InitValidateRaw ==
    /\ ValidatorIdle
    /\ pc = "validate_raw_start"
    /\ raw_df \in {NoneDF, OtherDF, Frame({}, <<>>)}
                  \cup {Frame(c, b) : c \in RawColumnSets,
                                      b \in Batches(RawValidatedRows, MaxRawValidated)}
    /\ df = NoneDF
    /\ day_filter = NoDayFilter
    /\ selected_project = AllProjects
    /\ selected_status = AllStatuses
    /\ max_rows = DefaultMaxRows
    /\ matrix = Raised("not called")
    /\ ExtractIdle

\* a call validate_raw_data(raw_df)
CallValidateRaw ==
    /\ pc = "validate_raw_start"
    /\ validated' = validate_raw_data(raw_df)
    /\ pc' = "validate_raw_done"
    /\ raw_df' = RawArgAfter(raw_df)
    /\ UNCHANGED <<day_filter, df, selected_project, selected_status,
                   max_rows, matrix, id_order, flow_name, extracted, cache,
                   matrix_args, threads, stages>>

NextValidateRaw == CallValidateRaw

SpecValidateRaw == InitValidateRaw /\ [][NextValidateRaw]_vars

-----------------------------------------------------------------------------
(* Calls of the three validators and of create_hourly_matrix, each on its    *)
(* own arguments                                                             *)

MaxBuilt == 2       \* rows of a batch handed to create_hourly_matrix

InitBuilder ==
    /\ ValidatorIdle
    /\ pc = "matrix_start"
    /\ df \in {Frame(c, b) : c \in ColumnSets, b \in Batches(MatrixRows, MaxBuilt)}
    /\ selected_project = AllProjects
    /\ selected_status = AllStatuses
    /\ max_rows = DefaultMaxRows
    /\ matrix = Raised("not called")
    /\ raw_df = NoneDF
    /\ day_filter = NoDayFilter
    /\ ExtractIdle

InitArguments ==
    InitValidateRaw \/ InitValidateProcessed \/ InitValidateMatrix \/ InitBuilder

NextArguments ==
    CallValidateRaw \/ CallValidateProcessed \/ CallValidateMatrix
        \/ CallCreateHourlyMatrix

SpecArguments == InitArguments /\ [][NextArguments]_vars

----------------------------------------------------------------------------
(* Properties of process_data_for_dashboard and of extract_project_name *)

E_Nightly ==
    <<"S","v","c","0","1"," ","|"," ","W","F"," ","|"," ">> \o F_Nightly

\* the raw batch is the three rows of the nightly-sync scenario, in any order
NightlyScenario ==
    /\ raw_df.kind = "frame"
    /\ raw_df.columns = RAW_COLUMNS
    /\ Len(raw_df.rows) = 3
    /\ Range(raw_df.rows) = {Nightly2S, Nightly2F, Nightly14R}

\* C5: process_data_for_dashboard followed by create_hourly_matrix with the
\* default filters, applied to the three rows of flow "WF - Nightly Sync" of
\* owner "svc01 serviceaccount" (hours 2, 2, 14; Succeeded, Failed, Running),
\* yields exactly the entity "Svc01 | WF | WF - Nightly Sync", whose cell is
\* "Failed" at hour 2, "Running" at hour 14 and "No Run" at the 22 others.
C5_NightlyScenario ==
    (pc = "pipeline_done" /\ NightlyScenario) =>
        /\ matrix.kind = "return"
        /\ matrix.entities = <<E_Nightly>>
        /\ DOMAIN matrix.cells = {E_Nightly}
        /\ DOMAIN matrix.cells[E_Nightly] = 0..23
        /\ \A h \in 0..23 :
              matrix.cells[E_Nightly][h] =
                  IF h = 2 THEN S_Failed ELSE IF h = 14 THEN S_Running ELSE S_NoRun

\* C5 witness: the scenario has run to its end with the Failed row last of
\* the two rows of hour 2, and hour 2 of the matrix is taken.
C5_Witness ==
    /\ pc = "pipeline_done"
    /\ NightlyScenario
    /\ raw_df.rows = <<Nightly14R, Nightly2S, Nightly2F>>
    /\ matrix.kind = "return"
    /\ Len(matrix.entities) = 1
    /\ matrix.cells[matrix.entities[1]][2] # S_NoRun

DegenerateName ==
    S_Unknown \o Sep \o S_Unknown \o Sep \o S_Unknown

\* C9 as stated: every row of a batch produced by process_data_for_dashboard
\* has a display_name that is not null, not empty and not the degenerate
\* "Unknown | Unknown | Unknown".
C9_DisplayNamesUsable ==
    pc \in {"normalized", "pipeline_done"} =>
        \A i \in 1..Len(df.rows) :
            /\ IsStr(df.rows[i].display_name)
            /\ df.rows[i].display_name # <<>>
            /\ df.rows[i].display_name # DegenerateName

\* a blank string, or a value that is not a string
BlankOrNonString(x) == ~IsStr(x) \/ Strip(x) = <<>>

\* C10 as stated: for every input value extract_project_name returns a
\* non-null string and never raises, and the result is "Unknown" for a blank
\* or non-string input.
C10_ExtractTotal ==
    pc = "extract_done" =>
        /\ extracted.kind = "return"
        /\ IsStr(extracted.value)
        /\ BlankOrNonString(flow_name) => extracted.value = S_Unknown

HyphenSep == <<" ", "-", " ">>
Underscore == <<"_">>

\* the label that the first three heuristics give to the name n: NULL when
\* none of the three applies
FirstThree(n) ==
    IF Contains(n, HyphenSep) THEN Strip(BeforeFirst(n, HyphenSep))
    ELSE IF Contains(n, Underscore) THEN Strip(BeforeFirst(n, Underscore))
    ELSE IF n # <<>> /\ IsUpper(n[1]) /\ Len(n) >= 2 /\ IsLower(n[2])
    THEN <<n[1]>> \o LowerPrefix(Tail(n))
    ELSE NULL

\* the four examples of the contract
ExtractExamples ==
    /\ flow_name = F_Amz      => extracted.value = <<"A","M","Z">>
    /\ flow_name = F_DataSync => extracted.value = <<"C","2","D">>
    /\ flow_name = F_Finance  => extracted.value = <<"F","i","n","a","n","c","e">>
    /\ flow_name = <<>>       => extracted.value = S_Unknown

\* C11 as stated: a non-blank name containing " - " gives the trimmed text
\* before its first " - "; otherwise one containing "_" gives the trimmed
\* text before the first underscore; otherwise one starting with an
\* upper-case letter followed by lower-case letters gives that leading word;
\* and the four examples of the contract hold.
C11_FirstMatchOnName ==
    (pc = "extract_done" /\ IsStr(flow_name)) =>
        /\ extracted.kind = "return"
        /\ ExtractExamples
        /\ (Strip(flow_name) # <<>> /\ FirstThree(flow_name) # NULL)
              => extracted.value = FirstThree(flow_name)

\* What the code does instead: the same three heuristics, in the same order,
\* decide on the name with its leading and trailing whitespace removed (a
\* " - " that touches either end of the name is no separator).
FirstMatchOnTrimmedName ==
    (pc = "extract_done" /\ IsStr(flow_name)) =>
        /\ extracted.kind = "return"
        /\ ExtractExamples
        /\ (Strip(flow_name) # <<>> /\ FirstThree(Strip(flow_name)) # NULL)
              => extracted.value = FirstThree(Strip(flow_name))

\* a name with " - ", with "_" and with a capitalized first word has been
\* given the text before its " - "
MixedNameExtracted ==
    /\ pc = "extract_done"
    /\ flow_name = F_Mixed
    /\ extracted = Returned(<<"A","b">>)

\* C12 as stated: a call of extract_project_name on the name of the call
\* before it returns the label of the call before it, whatever the cache
\* holds and in whatever order the known identifiers are scanned.
C12_SameNameSameLabel ==
    [][(pc = "extract_done" /\ pc' = "extract_done" /\ flow_name' = flow_name)
          => extracted' = extracted]_vars

\* the values of the three derived columns, row by row
DerivedKeys(d) ==
    [i \in 1..Len(d.rows) |->
        <<d.rows[i].display_name, d.rows[i].hour, d.rows[i].automation_project>>]

\* C13: when process_data_for_dashboard is applied to a non-empty batch that
\* it produced itself, the result has the same rows, with the same
\* display_name, hour and automation_project values.
C13_NormalizeIdempotent ==
    [][(pc = "normalized" /\ pc' = "renormalized" /\ ~IsEmpty(df))
          => /\ df'.kind = "frame"
             /\ Len(df'.rows) = Len(df.rows)
             /\ DerivedKeys(df') = DerivedKeys(df)]_vars

\* C13 witness: a batch of two rows under a day filter, one of them with a
\* display name and an hour, the other with a null display name, has been
\* normalized a second time.
C13_Witness ==
    /\ pc = "renormalized"
    /\ day_filter = DayFilter(1)
    /\ Len(df.rows) = 2
    /\ Len(raw_df.rows) = 3
    /\ \E i \in 1..2 : df.rows[i].display_name = E_Nightly /\ df.rows[i].hour = <<14>>
    /\ \E i \in 1..2 : IsNull(df.rows[i].display_name)

\* the row r of the raw batch is not taken out by the day filter
PassesDayFilter(r) ==
    day_filter \in {NoDayFilter, BadDayFilter} \/ r.datetimestarted[2] = day_filter[2]

\* the row n of the normalized batch is the row r of the raw batch
NormalizedFrom(n, r) ==
    /\ n.flowname = r.flowname
    /\ n.flowowner = r.flowowner
    /\ n.datetimestarted = r.datetimestarted
    /\ n.taskstatus = r.taskstatus
    /\ n.hour = <<r.datetimestarted[3]>>

\* C14 as stated: with or without a day_filter, no row with an unparseable
\* datetimestarted is in the batch that process_data_for_dashboard returns,
\* and every row of the raw batch with a parseable datetimestarted (that the
\* day filter keeps) is in it, normalized.
C14_BadTimestampDropsRowOnly ==
    (pc = "normalized" /\ raw_df.kind = "frame" /\ raw_df.columns = RAW_COLUMNS) =>
        /\ \A j \in 1..Len(df.rows) : df.rows[j].datetimestarted # BadTs
        /\ \A i \in 1..Len(raw_df.rows) :
              (IsTs(raw_df.rows[i].datetimestarted) /\ PassesDayFilter(raw_df.rows[i]))
                 => \E j \in 1..Len(df.rows) : NormalizedFrom(df.rows[j], raw_df.rows[i])

ValidateMatrixDone == pc = "validate_matrix_done"

\* the names that validate_matrix_data works on: the display_names list, or
\* the keys of the dict when the list is missing or empty
EffectiveNames ==
    LET a == matrix_args
        given == IF a.display_names.t = "list" THEN a.display_names.v ELSE <<>>
    IN  IF a.bot_hour_status.t # "dict" THEN {}
        ELSE IF given # <<>> THEN Range(given)
        ELSE DOMAIN a.bot_hour_status.v

\* every value of the dict is an hour map
WellFormedCells ==
    /\ matrix_args.bot_hour_status.t = "dict"
    /\ \A n \in DOMAIN matrix_args.bot_hour_status.v :
          ~IsNull(matrix_args.bot_hour_status.v[n])

\* the status that the input holds for entity n at hour h, NULL when absent
GivenStatus(n, h) ==
    LET bhs == matrix_args.bot_hour_status.v
    IN  IF n \in DOMAIN bhs /\ h \in DOMAIN bhs[n] THEN bhs[n][h] ELSE NULL

\* C15: validate_matrix_data returns ok = true exactly when an entity is
\* left after repair (for a dict of hour maps: exactly when one of the names
\* is a non-empty string); no name that is not a non-empty string is left in
\* the repaired entities or cells; and on ok = true every entity's hour map
\* holds, for every declared hour, the non-empty string status of the input
\* or "No Run" when the input has none.
C15_OkIffEntityRemains ==
    ValidateMatrixDone =>
        LET d == validated.data
        IN  /\ validated.ok <=> d.entities # <<>>
            /\ WellFormedCells =>
                  (validated.ok <=> \E n \in EffectiveNames : IsStr(n) /\ n # <<>>)
            /\ \A n \in Range(d.entities) \cup DOMAIN d.cells : IsStr(n) /\ n # <<>>
            /\ validated.ok =>
                  /\ Range(d.entities) = {n \in EffectiveNames : IsStr(n) /\ n # <<>>}
                  /\ DOMAIN d.cells = Range(d.entities)
                  /\ d.hours # <<>>
                  /\ \A n \in DOMAIN d.cells :
                        /\ DOMAIN d.cells[n] = Range(d.hours)
                        /\ \A h \in Range(d.hours) :
                              d.cells[n][h] =
                                 IF IsStr(GivenStatus(n, h)) /\ GivenStatus(n, h) # <<>>
                                 THEN GivenStatus(n, h) ELSE S_NoRun

\* C15 witness: a call with a None name and the name A succeeded; A's map
\* had a None status at hour 2 and a status at hour 14.
C15_Witness ==
    /\ ValidateMatrixDone
    /\ validated.ok
    /\ matrix_args.display_names = PyList(<<NULL, N_A>>)
    /\ validated.data.entities = <<N_A>>
    /\ matrix_args.hours = PyList(Hours24)
    /\ N_A \in DOMAIN matrix_args.bot_hour_status.v
    /\ 2 \in DOMAIN matrix_args.bot_hour_status.v[N_A]
    /\ GivenStatus(N_A, 2) = NULL
    /\ validated.data.cells[N_A][2] = S_NoRun
    /\ validated.data.cells[N_A][14] = S_Running

\* C16: whenever validate_matrix_data rejects, its payload has an empty
\* cells mapping, an empty entities list and a non-empty hours list of
\* integers in 0..23; and it rejects, with the full axis 0..23, when the
\* cells argument is not a mapping and when no names are supplied and none
\* can be recovered from the mapping.
C16_RejectWithSoundPayload ==
    ValidateMatrixDone =>
        LET d == validated.data
        IN  /\ ~validated.ok =>
                  /\ d.cells = EmptyDict
                  /\ d.entities = <<>>
                  /\ d.hours # <<>>
                  /\ Range(d.hours) \subseteq 0..23
            /\ (matrix_args.bot_hour_status.t # "dict" \/ EffectiveNames = {}) =>
                  /\ ~validated.ok
                  /\ d.hours = Hours24

\* C16 witness: validate_matrix_data({}, [], [0, 1, 2]) has rejected with the
\* empty matrix over the full axis.
C16_Witness ==
    /\ ValidateMatrixDone
    /\ matrix_args = [bot_hour_status |-> PyDict(EmptyDict),
                      display_names |-> PyList(<<>>),
                      hours |-> PyList(<<0, 1, 2>>)]
    /\ ~validated.ok
    /\ validated.data = Payload(EmptyDict, <<>>, Hours24)

\* C17 as stated: validate_processed_data returns ok = true with a batch for
\* every non-empty batch, whatever columns it lacks, and ok = false only for
\* a null or empty input.
C17_OkForEveryNonEmptyBatch ==
    pc = "validate_processed_done" =>
        /\ validated.ok <=> (df.kind = "frame" /\ ~IsEmpty(df))
        /\ validated.ok => (validated.df.kind = "frame" /\ ~IsEmpty(validated.df))

\* the rows of the raw batch whose datetimestarted parses to a timestamp
ParseableRawRows == Filter(raw_df.rows, LAMBDA r : IsTs(r.datetimestarted))

\* C18: for a non-empty batch, validate_raw_data returns (false, message,
\* null) when one of flowname, flowowner, datetimestarted, taskstatus is
\* absent; otherwise it returns ok = true with a batch that holds exactly the
\* rows with a parseable datetimestarted, in which a null taskstatus is
\* "No Run", a null flowowner is "Unknown", and triggertype is a column
\* whose nulls are "unknown" -- also when no row is left.
C18_RawValidation ==
    (pc = "validate_raw_done" /\ raw_df.kind = "frame" /\ ~IsEmpty(raw_df)) =>
        IF ~(RAW_COLUMNS \subseteq raw_df.columns)
        THEN ~validated.ok /\ validated.df = NoneDF
        ELSE LET out == validated.df.rows
                 in  == ParseableRawRows
             IN  /\ validated.ok
                 /\ validated.df.kind = "frame"
                 /\ "triggertype" \in validated.df.columns
                 /\ Len(out) = Len(in)
                 /\ \A i \in 1..Len(out) :
                       /\ out[i].datetimestarted = in[i].datetimestarted
                       /\ out[i].flowname = in[i].flowname
                       /\ out[i].taskstatus =
                             IF IsNull(in[i].taskstatus) THEN S_NoRun
                             ELSE in[i].taskstatus
                       /\ out[i].flowowner =
                             IF IsNull(in[i].flowowner) THEN S_Unknown
                             ELSE in[i].flowowner
                       /\ out[i].triggertype =
                             IF "triggertype" \in raw_df.columns
                                /\ ~IsNull(in[i].triggertype)
                             THEN in[i].triggertype ELSE T_unknown

\* C18 witness: of a batch of two rows, the one with the unparseable
\* timestamp was removed and the one with a null status and a null owner
\* was repaired.
C18_Witness ==
    /\ pc = "validate_raw_done"
    /\ validated.ok
    /\ Len(raw_df.rows) = 2
    /\ raw_df.rows[1].datetimestarted = BadTs
    /\ IsNull(raw_df.rows[2].taskstatus)
    /\ IsNull(raw_df.rows[2].flowowner)
    /\ "triggertype" \in raw_df.columns
    /\ Len(validated.df.rows) = 1
    /\ validated.df.rows[1].taskstatus = S_NoRun
    /\ validated.df.rows[1].flowowner = S_Unknown
    /\ validated.df.rows[1].triggertype = T_unknown

\* C18 second case: every row of the batch was removed and the call still
\* succeeded, with an empty batch
AllRowsDropped ==
    /\ pc = "validate_raw_done"
    /\ validated.ok
    /\ Len(raw_df.rows) = 2
    /\ validated.df.rows = <<>>

\* the row r matches the two selections of the call
MatchesSelection(r) ==
    /\ selected_project # AllProjects => r.automation_project = selected_project
    /\ selected_status # AllStatuses => r.taskstatus = selected_status

\* C19: an entity is in the result of create_hourly_matrix only if a row of
\* the batch with that display_name has, on that one row, the selected
\* project (unless "All Projects") and the selected status (unless "All
\* Statuses"); with a selected status every cell is that status or "No Run";
\* with both sentinels every row matches, and a matrix that was built holds
\* every usable display name of the batch.
C19_FilterSemantics ==
    MatrixDone =>
        /\ \A e \in Range(matrix.entities) \cup DOMAIN matrix.cells :
              \E i \in 1..Len(df.rows) :
                  df.rows[i].display_name = e /\ MatchesSelection(df.rows[i])
        /\ selected_status # AllStatuses =>
              \A e \in DOMAIN matrix.cells : \A h \in DOMAIN matrix.cells[e] :
                  matrix.cells[e][h] \in {selected_status, S_NoRun}
        /\ (selected_project = AllProjects /\ selected_status = AllStatuses) =>
              /\ \A i \in 1..Len(df.rows) : MatchesSelection(df.rows[i])
              /\ matrix.path = "validated" =>
                    \A i \in 1..Len(df.rows) :
                        InvalidDisplayName(df.rows[i])
                        \/ df.rows[i].display_name \in Range(matrix.entities)

\* C19 witness: with project P and status Failed selected, A is the only
\* entity of the result although the batch has a row of B with another
\* project and a Succeeded row of A at hour 2; A's cell at hour 2 is Failed.
C19_Witness ==
    /\ MatrixDone
    /\ selected_project = P_P
    /\ selected_status = S_Failed
    /\ matrix.entities = <<N_A>>
    /\ matrix.cells[N_A][2] = S_Failed
    /\ \E i \in 1..Len(df.rows) :
          df.rows[i].display_name = N_B /\ df.rows[i].automation_project # P_P
    /\ \E i \in 1..Len(df.rows) :
          /\ df.rows[i].display_name = N_A
          /\ df.rows[i].taskstatus = S_Succeeded
          /\ df.rows[i].hour = <<2>>

\* C20 as stated: when the batch is not filtered by day, a failure to derive
\* one column does not abort the others: process_data_for_dashboard returns
\* every row of a non-empty batch with its owner, automation_project and
\* display_name derived, and with the hour of each parseable datetimestarted.
C20_DerivedStepsIndependent ==
    (/\ pc = "normalized"
     /\ raw_df.kind = "frame" /\ raw_df.columns = RAW_COLUMNS /\ raw_df.rows # <<>>
     /\ day_filter \in {NoDayFilter, BadDayFilter}) =>
        /\ ~IsEmpty(df)
        /\ {"hour", "owner", "automation_project", "display_name"} \subseteq df.columns
        /\ Len(df.rows) = Len(raw_df.rows)
        /\ \A i \in 1..Len(df.rows) :
              LET r == raw_df.rows[i]
                  owner == OwnerOf(r.flowowner)
                  project == ExtractBody(r.flowname, id_order)
              IN  /\ df.rows[i].owner = owner
                  /\ df.rows[i].automation_project = project
                  /\ df.rows[i].display_name = DisplayName(owner, project, r.flowname)
                  /\ IsTs(r.datetimestarted) => df.rows[i].hour = <<r.datetimestarted[3]>>

\* 100 x (#Failed rows) + 10 x (#Running rows) + (#rows) of entity e, over
\* the rows of the working set
Score(e) ==
    LET of(status) == Cardinality({i \in 1..Len(WorkingSet) :
                                     /\ WorkingSet[i].display_name = e
                                     /\ WorkingSet[i].taskstatus = status})
        total == Cardinality({i \in 1..Len(WorkingSet) :
                                 WorkingSet[i].display_name = e})
    IN  100 * of(S_Failed) + 10 * of(S_Running) + total

\* C21 as stated: when the working set has more distinct display names than
\* max_rows, create_hourly_matrix returns exactly max_rows entities, none of
\* them with a score below that of an entity left out, and the cells hold
\* the kept entities only.
C21_CapKeepsTopScores ==
    (MatrixDone /\ max_rows >= 0 /\ Cardinality(WorkingNames) > max_rows) =>
        /\ matrix.kind = "return"
        /\ Len(matrix.entities) = max_rows
        /\ NoDuplicates(matrix.entities)
        /\ Range(matrix.entities) \subseteq WorkingNames
        /\ DOMAIN matrix.cells = Range(matrix.entities)
        /\ \A e \in Range(matrix.entities) :
              \A x \in WorkingNames \ Range(matrix.entities) : Score(x) <= Score(e)

\* the rows of the batch that pass the two filters
FilteredRows ==
    IF Readable THEN Filter(df.rows, MatchesSelection) ELSE <<>>

\* "owner | project | flowname" of a row, each part "Unknown" when null
RebuiltName(r) ==
    DisplayName(FillNa(r.owner, S_Unknown), FillNa(r.automation_project, S_Unknown),
                FillNa(r.flowname, S_Unknown))

\* C22 as stated: when every row left by the filters has a null or empty
\* display_name, create_hourly_matrix rebuilds the names as
\* "owner | project | flowname", drops the rows whose rebuilt name is
\* "Unknown | Unknown | Unknown", and returns a matrix whose entities are the
\* rebuilt names that are left (within max_rows).
C22_DisplayNameRepair ==
    LET rebuilt == {RebuiltName(FilteredRows[i]) : i \in 1..Len(FilteredRows)}
                      \ {DegenerateName}
    IN  (/\ MatrixDone
         /\ FilteredRows # <<>>
         /\ \A i \in 1..Len(FilteredRows) : InvalidDisplayName(FilteredRows[i])
         /\ Cardinality(rebuilt) <= max_rows) =>
            /\ matrix.kind = "return"
            /\ Range(matrix.entities) = rebuilt
            /\ DOMAIN matrix.cells = rebuilt

\* C23 as stated: a call of create_hourly_matrix on the rows of an earlier
\* call, permuted or with a row repeated, returns the cells of the earlier
\* call.
C23_CellsIgnoreArrangement ==
    [][(pc = "matrix_done" /\ pc' = "matrix_redone")
          => matrix'.cells = matrix.cells]_vars

\* the value 1 or 0 that the contract gives to a status: 1 exactly for
\* "succeeded" and "completed", whatever the case of the letters
SucceededOrCompleted(status) ==
    IF IsStr(status) /\ Lower(status) \in {S_succeeded_lower, S_completed_lower}
    THEN 1 ELSE 0

\* the wassuccessful that validate_raw_data derives for a one-row batch with
\* the status of row r
ValidatorSuccess(r) ==
    validate_raw_data(Frame(RAW_COLUMNS, <<[r EXCEPT !.datetimestarted = Ts(1, 0)]>>))
        .df.rows[1].wassuccessful

\* C24 as stated: for a batch without the wassuccessful column,
\* process_data_for_dashboard gives every row the wassuccessful that
\* validate_raw_data derives for its status, which is 1 exactly when the
\* status is "succeeded" or "completed" compared without case.
C24_SameSuccessDerivation ==
    (pc = "normalized" /\ raw_df.kind = "frame"
        /\ "wassuccessful" \notin raw_df.columns /\ "taskstatus" \in raw_df.columns) =>
        \A i \in 1..Len(df.rows) :
            /\ df.rows[i].wassuccessful = ValidatorSuccess(df.rows[i])
            /\ df.rows[i].wassuccessful = SucceededOrCompleted(df.rows[i].taskstatus)

\* the rows of the raw batch with a parseable datetimestarted of day d
RowsOfDay(d) ==
    Filter(raw_df.rows,
           LAMBDA r : IsTs(r.datetimestarted) /\ r.datetimestarted[2] = d)

\* the normalized rows out are the raw rows in, one for one and in order
SameRows(out, in) ==
    /\ Len(out) = Len(in)
    /\ \A i \in 1..Len(out) :
          /\ out[i].flowname = in[i].flowname
          /\ out[i].flowowner = in[i].flowowner
          /\ out[i].taskstatus = in[i].taskstatus
          /\ out[i].datetimestarted = in[i].datetimestarted

\* C25 as stated: with a day_filter that parses to a date, the batch that
\* process_data_for_dashboard returns holds exactly the rows whose
\* datetimestarted parses and falls on that date; with a day_filter that
\* cannot be parsed it holds all rows of the batch, normalized.
C25_DayFilter ==
    (pc = "normalized" /\ raw_df.kind = "frame" /\ raw_df.columns = RAW_COLUMNS
        /\ raw_df.rows # <<>>) =>
        /\ (day_filter # NoDayFilter /\ day_filter # BadDayFilter) =>
              SameRows(df.rows, RowsOfDay(day_filter[2]))
        /\ day_filter = BadDayFilter =>
              /\ SameRows(df.rows, raw_df.rows)
              /\ {"hour", "owner", "automation_project", "display_name"}
                    \subseteq df.columns

\* C26: whatever the interleaving of the threads' calls, a call that has
\* returned holds the value the undecorated function computes for its own
\* name, the entries of the called names hold the value of their own key,
\* no name is cached twice, and the cache holds at most CACHE_MAXSIZE entries.
C26_CacheSafe ==
    pc = "callers" =>
        /\ \A t \in Threads :
              threads[t].pos = "done" =>
                 threads[t].result = Returned(ExtractBody(threads[t].name, id_order))
        /\ \A x \in CallerNames \cap CacheKeys(cache) :
              cache[CacheIndex(cache, x)][2] = ExtractBody(x, id_order)
        /\ Cardinality(CacheKeys(cache)) = Len(cache)
        /\ Len(cache) <= CACHE_MAXSIZE

\* two threads missed on the same name, both ran the function and both
\* stored, with the cache full
C26_Witness ==
    /\ pc = "callers"
    /\ Len(cache) = CACHE_MAXSIZE
    /\ \E t, u \in Threads :
          /\ t # u
          /\ threads[t].pos = "done" /\ threads[u].pos = "done"
          /\ threads[t].name = F_Mixed /\ threads[u].name = F_Mixed
          /\ ~threads[t].hit /\ ~threads[u].hit
          /\ threads[t].calls = 1 /\ threads[u].calls = 1

\* the positions of a stage in the record of the main flow
StagePositions(s) == {i \in 1..Len(stages) : stages[i] = s}

\* C28 as stated: whenever the main flow has called create_hourly_matrix, it
\* called process_data_for_dashboard, then validate_raw_data, then
\* create_hourly_matrix; and inside create_hourly_matrix validate_processed_data
\* ran before the aggregation and validate_matrix_data after it.
C28_PipelineOrder ==
    (pc = "main_done" /\ StagePositions("create_hourly_matrix") # {}) =>
        /\ \A k \in StagePositions("create_hourly_matrix") :
              \E i \in StagePositions("process_data_for_dashboard"),
                 j \in StagePositions("validate_raw_data") : i < j /\ j < k
        /\ \A a \in StagePositions("aggregate") :
              /\ \E p \in StagePositions("validate_processed_data") : p < a
              /\ \E m \in StagePositions("validate_matrix_data") : a < m

\* C29: in every outcome of validate_matrix_data, accepting or rejecting, the
\* keys of the returned cells are exactly the names of the returned entities.
C29_CellsMatchEntities ==
    ValidateMatrixDone =>
        DOMAIN validated.data.cells = Range(validated.data.entities)

\* C29 witness: validate_matrix_data has accepted a call whose display_names
\* hold a name the dict has no entry for and a name that is not usable; the
\* first is an entity with cells, the second is in neither.
C29_Witness ==
    /\ ValidateMatrixDone
    /\ validated.ok
    /\ matrix_args.bot_hour_status.t = "dict"
    /\ matrix_args.display_names.t = "list"
    /\ \E n \in Range(validated.data.entities) :
          n \notin DOMAIN matrix_args.bot_hour_status.v
    /\ \E n \in Range(matrix_args.display_names.v) :
          n \notin Range(validated.data.entities)
    /\ DOMAIN matrix_args.bot_hour_status.v # {}

\* the usable display names of the rows that pass the filters, each once, in
\* order of first occurrence in the batch
NamesInBatchOrder == Unique(Map(WorkingSet, LAMBDA r : r.display_name))

\* C30: every entity that create_hourly_matrix returns is the display_name of
\* an input row that passes the filters; and when these display names are at
\* most max_rows, the entities list holds each of them once, in order of
\* first occurrence in the batch, the ones with no row in an hour of 0..23
\* included.
C30_EntitiesFromBatch ==
    (MatrixDone /\ Readable) =>
        /\ Range(matrix.entities) \subseteq WorkingNames
        /\ Cardinality(WorkingNames) <= max_rows =>
              matrix.entities = NamesInBatchOrder

\* C30 witness: 'B' comes first in the batch, with rows of hour 24 and of a
\* null hour only, then 'A': the entities are B, A and the row of B is all
\* "No Run".
C30_Witness ==
    /\ MatrixDone
    /\ Readable
    /\ Cardinality(WorkingNames) <= max_rows
    /\ matrix.entities = <<N_B, N_A>>
    /\ \A i \in 1..Len(WorkingSet) :
          WorkingSet[i].display_name = N_B =>
             (WorkingSet[i].hour = <<>> \/ WorkingSet[i].hour[1] \notin 0..23)
    /\ \A h \in 0..23 : matrix.cells[N_B][h] = S_NoRun

\* a call of a validator or of create_hourly_matrix returns in this step
CallReturns ==
    pc' \in {"validate_raw_done", "validate_processed_done",
             "validate_matrix_done", "matrix_done"}

\* C27: when validate_raw_data, validate_processed_data, validate_matrix_data
\* or create_hourly_matrix returns, accepting or rejecting, the batch, the
\* cells mapping, the entities list and the hours list passed in are what
\* they were before the call.
C27_ArgumentsUnchanged ==
    [][CallReturns => /\ raw_df' = raw_df
                      /\ df' = df
                      /\ matrix_args' = matrix_args]_vars

\* C27 witness: validate_raw_data has accepted a batch with no triggertype
\* column and an unparseable timestamp; the payload has the column and has
\* lost the row, the batch passed in has neither change.
C27_Witness ==
    /\ pc = "validate_raw_done"
    /\ validated.ok
    /\ "triggertype" \notin raw_df.columns
    /\ "triggertype" \in validated.df.columns
    /\ \E i \in 1..Len(raw_df.rows) : raw_df.rows[i].datetimestarted = BadTs
    /\ Len(validated.df.rows) < Len(raw_df.rows)

----------------------------------------------------------------------------

Init == InitMatrix \/ InitPipeline \/ InitExtract \/ InitValidateMatrix
        \/ InitValidateProcessed \/ InitValidateRaw \/ InitRearrange
        \/ InitThreads \/ InitMain

Next ==
    \/ CallCreateHourlyMatrix
    \/ Normalize \/ BuildFromNormalized \/ ReNormalize
    \/ CallExtract \/ CallExtractAgain \/ Restart
    \/ CallValidateMatrix \/ CallValidateProcessed \/ CallValidateRaw
    \/ CallOnRearranged
    \/ NextThreads
    \/ MainProcess \/ MainMatrix

Spec == Init /\ [][Next]_vars

====
